---- MODULE Spec2Model ----
(***************************************************************************)
(* Model of the vehicle-detection interpretation pipeline of the plate     *)
(* recognition backend: the Strict service (strictVisionService.ts), the   *)
(* TrafficCamera service (trafficCameraVisionService.ts) and the Lenient   *)
(* service (enhancedVisionService.ts).                                     *)
(*                                                                         *)
(* Text is modelled character by character: a JavaScript string is a       *)
(* sequence of one-character strings.  Characters outside ASCII are named  *)
(* by a token: "BULLET" is U+2022, "MIDDOT" is U+00B7, "ENDASH" is U+2013, *)
(* "EMDASH" is U+2014 and "TAB" is U+0009.                                 *)
(***************************************************************************)
EXTENDS Integers, Sequences, FiniteSets, TLC

VARIABLES plateRun, candRun, batch, cameraRun

vars == <<plateRun, candRun, batch, cameraRun>>

(***************************************************************************)
(* Characters and character classes of the regular expressions.            *)
(***************************************************************************)
UpperSeq == <<"A","B","C","D","E","F","G","H","I","J","K","L","M",
              "N","O","P","Q","R","S","T","U","V","W","X","Y","Z">>

LowerSeq == <<"a","b","c","d","e","f","g","h","i","j","k","l","m",
              "n","o","p","q","r","s","t","u","v","w","x","y","z">>

UpperLetters == {UpperSeq[i] : i \in DOMAIN UpperSeq}

LowerLetters == {LowerSeq[i] : i \in DOMAIN LowerSeq}

Digits == {"0","1","2","3","4","5","6","7","8","9"}

\* \s of a JavaScript regular expression, and what String.prototype.trim strips
Whitespace == {" ", "TAB"}

\* the class [•·]
Bullets == {"BULLET", "MIDDOT"}

\* the class [–—]
LongDashes == {"ENDASH", "EMDASH"}

\* \w of a JavaScript regular expression
WordChars == UpperLetters \cup LowerLetters \cup Digits \cup {"_"}

IsDigit(c) == c \in Digits

\* String.prototype.toUpperCase / toLowerCase on one character
ToUpperChar(c) ==
  IF c \in LowerLetters
    THEN UpperSeq[CHOOSE i \in DOMAIN LowerSeq : LowerSeq[i] = c]
    ELSE c

ToLowerChar(c) ==
  IF c \in UpperLetters
    THEN LowerSeq[CHOOSE i \in DOMAIN UpperSeq : UpperSeq[i] = c]
    ELSE c

toUpperCase(s) == [i \in DOMAIN s |-> ToUpperChar(s[i])]

toLowerCase(s) == [i \in DOMAIN s |-> ToLowerChar(s[i])]

\* String.prototype.trim
RECURSIVE TrimLeft(_)
TrimLeft(s) ==
  IF s # <<>> /\ Head(s) \in Whitespace THEN TrimLeft(Tail(s)) ELSE s

RECURSIVE TrimRight(_)
TrimRight(s) ==
  IF s # <<>> /\ s[Len(s)] \in Whitespace
    THEN TrimRight(SubSeq(s, 1, Len(s) - 1))
    ELSE s

trim(s) == TrimRight(TrimLeft(s))

\* s.replace(/[class]/g, c): every character of the class becomes c
ReplaceEach(s, class, c) == [i \in DOMAIN s |-> IF s[i] \in class THEN c ELSE s[i]]

\* s.replace(/[class]+/g, c): every maximal run of the class becomes one c
RECURSIVE ReplaceRuns(_, _, _)
ReplaceRuns(s, class, c) ==
  IF s = <<>> THEN <<>>
  ELSE IF Head(s) \in class
    THEN IF Len(s) > 1 /\ s[2] \in class
           THEN ReplaceRuns(Tail(s), class, c)
           ELSE <<c>> \o ReplaceRuns(Tail(s), class, c)
    ELSE <<Head(s)>> \o ReplaceRuns(Tail(s), class, c)

\* s.replace(/[^class]/g, ''): only the characters of the class are kept
RECURSIVE KeepOnly(_, _)
KeepOnly(s, class) ==
  IF s = <<>> THEN <<>>
  ELSE IF Head(s) \in class
    THEN <<Head(s)>> \o KeepOnly(Tail(s), class)
    ELSE KeepOnly(Tail(s), class)

\* s.replace(/^-|-$/g, ''): one leading and one trailing dash are removed
StripEdgeDashes(s) ==
  LET a == IF s # <<>> /\ Head(s) = "-" THEN Tail(s) ELSE s
  IN  IF a # <<>> /\ a[Len(a)] = "-" THEN SubSeq(a, 1, Len(a) - 1) ELSE a

\* /[class]/.test(s)
HasCharIn(s, class) == \E i \in DOMAIN s : s[i] \in class

\* s starts with the literal p
StartsWith(s, p) == Len(s) >= Len(p) /\ SubSeq(s, 1, Len(p)) = p

\* the n characters of s from position i on exist and are digits: \d{n}
DigitsAt(s, i, n) == Len(s) >= i + n - 1 /\ \A k \in i..(i + n - 1) : IsDigit(s[k])

\* s has a character at position i and it is in the class
CharAt(s, i, class) == Len(s) >= i /\ s[i] \in class

(***************************************************************************)
(* JavaScript values of a candidate's fields: a string, a number,          *)
(* undefined (a missing field), null, or an object (typeMap['constructor'] *)
(* is the inherited Object function).                                      *)
(***************************************************************************)
Str(s) == [t |-> "string", s |-> s, n |-> 0]

Num(k) == [t |-> "number", s |-> <<>>, n |-> k]

Undefined == [t |-> "undefined", s |-> <<>>, n |-> 0]

Null == [t |-> "null", s |-> <<>>, n |-> 0]

InheritedObject == [t |-> "object", s |-> <<>>, n |-> 0]

\* JavaScript truthiness: !v is ~Truthy(v)
Truthy(v) ==
  \/ v.t = "string" /\ v.s # <<>>
  \/ v.t = "number" /\ v.n # 0
  \/ v.t = "object"

\* a || b
OrElse(a, b) == IF Truthy(a) THEN a ELSE b

(***************************************************************************)
(* Canonicalization tables and exclusion words.                            *)
(***************************************************************************)
StrictValidTypes ==
  { <<"s","e","d","a","n">>,
    <<"s","u","v">>,
    <<"p","i","c","k","u","p">>,
    <<"t","r","u","c","k">>,
    <<"b","u","s">> }

TrafficValidTypes ==
  { <<"s","e","d","a","n">>,
    <<"s","u","v">>,
    <<"p","i","c","k","u","p">>,
    <<"t","r","u","c","k">>,
    <<"b","u","s">>,
    <<"m","o","t","o","r","c","y","c","l","e">> }

StrictTypeMap ==
  { <<<<"c","a","r">>, <<"S","e","d","a","n">>>>,
    <<<<"a","u","t","o","m","o","b","i","l","e">>, <<"S","e","d","a","n">>>>,
    <<<<"v","e","h","i","c","l","e">>, <<"S","e","d","a","n">>>>,
    <<<<"s","u","v">>, <<"S","U","V">>>>,
    <<<<"s","p","o","r","t"," ","u","t","i","l","i","t","y"," ","v","e","h","i","c","l","e">>, <<"S","U","V">>>>,
    <<<<"p","i","c","k","u","p"," ","t","r","u","c","k">>, <<"P","i","c","k","u","p">>>>,
    <<<<"p","i","c","k","-","u","p">>, <<"P","i","c","k","u","p">>>>,
    <<<<"l","o","r","r","y">>, <<"T","r","u","c","k">>>>,
    <<<<"s","e","m","i">>, <<"T","r","u","c","k">>>>,
    <<<<"t","r","a","i","l","e","r">>, <<"T","r","u","c","k">>>>,
    <<<<"c","o","a","c","h">>, <<"B","u","s">>>>,
    <<<<"m","i","n","i","b","u","s">>, <<"B","u","s">>>> }

TrafficTypeMap ==
  { <<<<"c","a","r">>, <<"S","e","d","a","n">>>>,
    <<<<"a","u","t","o","m","o","b","i","l","e">>, <<"S","e","d","a","n">>>>,
    <<<<"v","e","h","i","c","l","e">>, <<"S","e","d","a","n">>>>,
    <<<<"s","u","v">>, <<"S","U","V">>>>,
    <<<<"s","p","o","r","t"," ","u","t","i","l","i","t","y"," ","v","e","h","i","c","l","e">>, <<"S","U","V">>>>,
    <<<<"p","i","c","k","u","p"," ","t","r","u","c","k">>, <<"P","i","c","k","u","p">>>>,
    <<<<"p","i","c","k","-","u","p">>, <<"P","i","c","k","u","p">>>>,
    <<<<"l","o","r","r","y">>, <<"T","r","u","c","k">>>>,
    <<<<"s","e","m","i">>, <<"T","r","u","c","k">>>>,
    <<<<"t","r","a","i","l","e","r">>, <<"T","r","u","c","k">>>>,
    <<<<"c","o","a","c","h">>, <<"B","u","s">>>>,
    <<<<"m","i","n","i","b","u","s">>, <<"B","u","s">>>>,
    <<<<"b","i","k","e">>, <<"M","o","t","o","r","c","y","c","l","e">>>>,
    <<<<"m","o","t","o","r","b","i","k","e">>, <<"M","o","t","o","r","c","y","c","l","e">>>> }

validColors ==
  { <<"r","e","d">>,
    <<"b","l","u","e">>,
    <<"g","r","e","e","n">>,
    <<"y","e","l","l","o","w">>,
    <<"b","l","a","c","k">>,
    <<"w","h","i","t","e">>,
    <<"g","r","a","y">>,
    <<"s","i","l","v","e","r">>,
    <<"b","r","o","w","n">>,
    <<"o","r","a","n","g","e">> }

colorMap ==
  { <<<<"g","r","e","y">>, <<"G","r","a","y">>>>,
    <<<<"d","a","r","k"," ","b","l","u","e">>, <<"B","l","u","e">>>>,
    <<<<"l","i","g","h","t"," ","b","l","u","e">>, <<"B","l","u","e">>>>,
    <<<<"n","a","v","y">>, <<"B","l","u","e">>>>,
    <<<<"m","a","r","o","o","n">>, <<"R","e","d">>>>,
    <<<<"b","u","r","g","u","n","d","y">>, <<"R","e","d">>>>,
    <<<<"c","r","i","m","s","o","n">>, <<"R","e","d">>>>,
    <<<<"l","i","m","e">>, <<"G","r","e","e","n">>>>,
    <<<<"f","o","r","e","s","t"," ","g","r","e","e","n">>, <<"G","r","e","e","n">>>>,
    <<<<"b","e","i","g","e">>, <<"B","r","o","w","n">>>>,
    <<<<"t","a","n">>, <<"B","r","o","w","n">>>>,
    <<<<"c","r","e","a","m">>, <<"W","h","i","t","e">>>>,
    <<<<"o","f","f","-","w","h","i","t","e">>, <<"W","h","i","t","e">>>>,
    <<<<"c","h","a","r","c","o","a","l">>, <<"B","l","a","c","k">>>>,
    <<<<"g","o","l","d">>, <<"Y","e","l","l","o","w">>>> }

\* keys every object literal inherits from Object.prototype that a lower-cased
\* text can spell: typeMap[key] and colorMap[key] are then inherited objects
ObjectPrototypeKeys ==
  { <<"c","o","n","s","t","r","u","c","t","o","r">>,
    <<"_","_","p","r","o","t","o","_","_">> }

\* /^(NOT|FOUND|NONE|NULL|UNDEFINED|UNKNOWN|NOTFOUND)$/i
SentinelWords ==
  { <<"N","O","T">>,
    <<"F","O","U","N","D">>,
    <<"N","O","N","E">>,
    <<"N","U","L","L">>,
    <<"U","N","D","E","F","I","N","E","D">>,
    <<"U","N","K","N","O","W","N">>,
    <<"N","O","T","F","O","U","N","D">> }

\* map[key] || null for an object literal
MapLookup(map, key) ==
  IF \E p \in map : p[1] = key
    THEN Str((CHOOSE p \in map : p[1] = key)[2])
    ELSE IF key \in ObjectPrototypeKeys THEN InheritedObject ELSE Null

\* text.charAt(0).toUpperCase() + text.slice(1).toLowerCase()
capitalizeFirst(text) ==
  IF text = <<>> THEN <<>>
  ELSE <<ToUpperChar(Head(text))>> \o toLowerCase(Tail(text))

(***************************************************************************)
(* Strict service: plate normalizer and plate validator.                   *)
(***************************************************************************)
MinPlateLength == 2

MaxPlateLength == 15

\* the replace chain of normalizePlateNumber, before the final filter
StrictSeparatorsToDash(s) ==
  LET a == ReplaceEach(s, Bullets, "-")
      b == ReplaceEach(a, {"."}, "-")
      c == ReplaceRuns(b, Whitespace, "-")
      d == ReplaceEach(c, LongDashes, "-")
      e == ReplaceRuns(d, {"-"}, "-")
  IN  StripEdgeDashes(e)

normalizePlateNumber(plateText) ==
  IF ~Truthy(plateText) \/ plateText.t # "string" THEN <<>>
  ELSE LET normalized == StrictSeparatorsToDash(toUpperCase(trim(plateText.s)))
       IN  KeepOnly(normalized, UpperLetters \cup Digits \cup {"-"})

\* /^(NOT|FOUND|NONE|NULL|UNDEFINED|UNKNOWN|NOTFOUND)$/i
IsSentinel(s) == toUpperCase(s) \in SentinelWords

\* /^\d{4}-\d{2}-\d{2}/
StrictDatePattern(s) ==
  /\ DigitsAt(s, 1, 4) /\ CharAt(s, 5, {"-"})
  /\ DigitsAt(s, 6, 2) /\ CharAt(s, 8, {"-"})
  /\ DigitsAt(s, 9, 2)

\* /^\d{2}:\d{2}/
TimePattern(s) == DigitsAt(s, 1, 2) /\ CharAt(s, 3, {":"}) /\ DigitsAt(s, 4, 2)

\* /^CAM\d+/
CameraIdPattern(s) == StartsWith(s, <<"C","A","M">>) /\ DigitsAt(s, 4, 1)

\* /^[0-9-]+$/
OnlyDigitsAndDashes(s) == s # <<>> /\ \A i \in DOMAIN s : s[i] \in Digits \cup {"-"}

\* plausible slip: the digits-and-dashes rule left out, as in TrafficCamera
StrictInvalidPattern_NoDigitsRule(plate) ==
  \/ IsSentinel(plate)
  \/ StrictDatePattern(plate)
  \/ TimePattern(plate)
  \/ CameraIdPattern(plate)

StrictInvalidPattern(plate) ==
  \/ IsSentinel(plate)
  \/ StrictDatePattern(plate)
  \/ TimePattern(plate)
  \/ CameraIdPattern(plate)
  \/ OnlyDigitsAndDashes(plate)

\* plausible slip: the upper length bound taken as exclusive
isValidPlateFormat_ExclusiveMax(plate) ==
  /\ HasCharIn(plate, UpperLetters \cup Digits)
  /\ ~(Len(plate) < MinPlateLength \/ Len(plate) >= MaxPlateLength)
  /\ ~StrictInvalidPattern(plate)

isValidPlateFormat(plate) ==
  /\ HasCharIn(plate, UpperLetters \cup Digits)
  /\ ~(Len(plate) < MinPlateLength \/ Len(plate) > MaxPlateLength)
  /\ ~StrictInvalidPattern(plate)

(***************************************************************************)
(* TrafficCamera service: plate validator.                                 *)
(***************************************************************************)
\* /^\d{4}[-\/]\d{2}[-\/]\d{2}/
TrafficDatePattern(s) ==
  /\ DigitsAt(s, 1, 4) /\ CharAt(s, 5, {"-", "/"})
  /\ DigitsAt(s, 6, 2) /\ CharAt(s, 8, {"-", "/"})
  /\ DigitsAt(s, 9, 2)

\* /^VEHICLE/i, /^NONVEHICLE/i, /^PERSON/i
CameraMetadataPattern(s) ==
  LET u == toUpperCase(s)
  IN  \/ StartsWith(u, <<"V","E","H","I","C","L","E">>)
      \/ StartsWith(u, <<"N","O","N","V","E","H","I","C","L","E">>)
      \/ StartsWith(u, <<"P","E","R","S","O","N">>)

TrafficInvalidPattern(cleaned) ==
  \/ IsSentinel(cleaned)
  \/ TrafficDatePattern(cleaned)
  \/ TimePattern(cleaned)
  \/ CameraIdPattern(cleaned)
  \/ CameraMetadataPattern(cleaned)

\* plausible slip: the dashes removed with the other non-word characters
TrafficCleaned_DashesRemoved(s) == KeepOnly(toUpperCase(trim(s)), WordChars)

\* the text validateTrafficCameraPlate tests: trimmed, upper-cased, [^\w\-] removed
TrafficCleaned(s) == KeepOnly(toUpperCase(trim(s)), WordChars \cup {"-"})

\* the plate as a string value, or Null
validateTrafficCameraPlate(plateText) ==
  IF ~Truthy(plateText) \/ plateText.t # "string" THEN Null
  ELSE LET cleaned == TrafficCleaned(plateText.s)
       IN  IF Len(cleaned) < MinPlateLength \/ Len(cleaned) > MaxPlateLength THEN Null
           ELSE IF ~HasCharIn(cleaned, UpperLetters \cup Digits) THEN Null
           ELSE IF TrafficInvalidPattern(cleaned) THEN Null
           ELSE Str(cleaned)

(***************************************************************************)
(* Strict and TrafficCamera services: type and color canonicalizers.       *)
(***************************************************************************)
\* validateVehicleType of either service, over its validTypes and typeMap
ValidateTypeWith(type, validTypes, typeMap) ==
  IF ~Truthy(type) \/ type.t # "string" THEN Null
  ELSE LET normalizedType == trim(toLowerCase(type.s))
       IN  IF normalizedType \in validTypes
             THEN Str(capitalizeFirst(normalizedType))
             ELSE MapLookup(typeMap, normalizedType)

StrictValidateVehicleType(type) == ValidateTypeWith(type, StrictValidTypes, StrictTypeMap)

TrafficValidateVehicleType(type) == ValidateTypeWith(type, TrafficValidTypes, TrafficTypeMap)

\* validateColor, the same in both services
validateColor(color) ==
  IF ~Truthy(color) \/ color.t # "string" THEN Null
  ELSE LET normalizedColor == trim(toLowerCase(color.s))
       IN  IF normalizedColor \in validColors
             THEN Str(capitalizeFirst(normalizedColor))
             ELSE MapLookup(colorMap, normalizedColor)

(***************************************************************************)
(* Lenient service (EnhancedVisionService): plate and field cleaning.      *)
(***************************************************************************)
PlatePrefixes ==
  { <<"l","i","c","e","n","s","e"," ","p","l","a","t","e">>,
    <<"p","l","a","t","e"," ","n","u","m","b","e","r">>,
    <<"n","u","m","b","e","r">> }

PlateSuffixes ==
  { <<"l","i","c","e","n","s","e"," ","p","l","a","t","e">>,
    <<"p","l","a","t","e"," ","n","u","m","b","e","r">> }

LenientMinPlateLength == 2

LenientMaxPlateLength == 15

DefaultConfidence == 85

\* the default of cleanField: 'unknown'
UnknownText == <<"u","n","k","n","o","w","n">>

\* s ends with the literal p
EndsWith(s, p) == Len(s) >= Len(p) /\ SubSeq(s, Len(s) - Len(p) + 1, Len(s)) = p

\* .replace(/^(license plate|plate number|number):\s*/i, '')
StripPlatePrefix(s) ==
  LET l == toLowerCase(s)
      hit == {p \in PlatePrefixes : StartsWith(l, p \o <<":">>)}
  IN  IF hit = {} THEN s
      ELSE LET p == CHOOSE x \in hit : TRUE
           IN  TrimLeft(SubSeq(s, Len(p) + 2, Len(s)))

\* .replace(/\s*(license plate|plate number)$/i, '')
StripPlateSuffix(s) ==
  LET l == toLowerCase(s)
      hit == {p \in PlateSuffixes : EndsWith(l, p)}
  IN  IF hit = {} THEN s
      ELSE LET p == CHOOSE x \in hit : TRUE
           IN  TrimRight(SubSeq(s, 1, Len(s) - Len(p)))

\* .replace(/^["']|["']$/g, '')
StripEdgeQuotes(s) ==
  LET a == IF s # <<>> /\ Head(s) \in {"\"", "'"} THEN Tail(s) ELSE s
  IN  IF a # <<>> /\ a[Len(a)] \in {"\"", "'"} THEN SubSeq(a, 1, Len(a) - 1) ELSE a

\* the characters /^[A-Z0-9\s\-•\.]{2,15}$/ allows
LenientPlateChars == UpperLetters \cup Digits \cup Whitespace \cup {"-", "BULLET", "."}

\* cleanPlateNumber called on a truthy value that is no string throws a TypeError
\* (plateText.replace is not a function)
cleanPlateNumberThrows(plateText) == Truthy(plateText) /\ plateText.t # "string"

\* cleanPlateNumber on a string or a falsy value
cleanPlateNumber(plateText) ==
  IF ~Truthy(plateText) THEN <<>>
  ELSE LET a == trim(StripPlateSuffix(StripPlatePrefix(plateText.s)))
           b == StripEdgeQuotes(a)
           c == ReplaceEach(b, LongDashes, "-")
           d == ReplaceEach(c, Bullets, "BULLET")
           e == ReplaceRuns(d, Whitespace, " ")
           cleaned == toUpperCase(trim(e))
       IN  IF ~(/\ Len(cleaned) >= LenientMinPlateLength
                /\ Len(cleaned) <= LenientMaxPlateLength
                /\ \A i \in DOMAIN cleaned : cleaned[i] \in LenientPlateChars)
             THEN <<>>
           ELSE IF ~HasCharIn(cleaned, UpperLetters \cup Digits) THEN <<>>
           ELSE cleaned

\* cleanField: lower-cased, trimmed, [^a-z0-9] removed, or the default
cleanField(field, defaultValue) ==
  IF ~Truthy(field) \/ field.t # "string" THEN defaultValue
  ELSE LET cleaned == KeepOnly(trim(toLowerCase(field.s)), LowerLetters \cup Digits)
       IN  IF cleaned = <<>> THEN defaultValue ELSE cleaned

(***************************************************************************)
(* Candidates and detections.  A candidate is one element of the parsed    *)
(* list: an object with the fields the service reads (plate is             *)
(* plate_number under Strict and TrafficCamera, plateNumber under Lenient; *)
(* conf is confidence_score under TrafficCamera, confidence under          *)
(* Lenient), or null (isObject = FALSE).  The id of a Lenient detection    *)
(* (car.id || uuidv4()) is a fresh label and is left out.                  *)
(***************************************************************************)
Cand(plate, color, type, conf) ==
  [isObject |-> TRUE, plate |-> plate, color |-> color, type |-> type, conf |-> conf]

NullCand ==
  [isObject |-> FALSE, plate |-> Undefined, color |-> Undefined,
   type |-> Undefined, conf |-> Undefined]

Detection(plate, color, type, conf) ==
  [plate_number |-> plate, color |-> color, type |-> type, confidence |-> conf,
   timestamp |-> Undefined, camera_info |-> Undefined]

\* reading a field of null throws; the three services read the plate first
MissingRequired(car) == ~Truthy(car.plate) \/ ~Truthy(car.color) \/ ~Truthy(car.type)

\* one pass of the loop of validateStrictCars: the detections it pushes
validateStrictCar(car) ==
  IF ~car.isObject THEN <<>>
  ELSE IF MissingRequired(car) THEN <<>>
  ELSE LET normalizedPlate == normalizePlateNumber(car.plate)
           validType == StrictValidateVehicleType(car.type)
           validColor == validateColor(car.color)
       IN  IF normalizedPlate = <<>> \/ ~isValidPlateFormat(normalizedPlate) THEN <<>>
           ELSE IF ~Truthy(validType) THEN <<>>
           ELSE IF ~Truthy(validColor) THEN <<>>
           ELSE <<Detection(normalizedPlate, validColor, validType, Undefined)>>

RECURSIVE validateStrictCars(_)
validateStrictCars(cars) ==
  IF cars = <<>> THEN <<>>
  ELSE validateStrictCar(Head(cars)) \o validateStrictCars(Tail(cars))

\* plausible slip: only the upper bound applied
ClampConfidence_NoLowerBound(x) == IF x > 100 THEN 100 ELSE x

\* Math.max(0, Math.min(100, x))
ClampConfidence(x) == IF x > 100 THEN 100 ELSE IF x < 0 THEN 0 ELSE x

\* validateTrafficCameraCar: <<detection>>, or <<>> for null
validateTrafficCameraCar(vehicle) ==
  IF ~vehicle.isObject THEN <<>>
  ELSE IF MissingRequired(vehicle) THEN <<>>
  ELSE LET plateNumber == validateTrafficCameraPlate(vehicle.plate)
           validType == TrafficValidateVehicleType(vehicle.type)
           validColor == validateColor(vehicle.color)
           confidenceScore == IF vehicle.conf.t = "number"
                                THEN Num(ClampConfidence(vehicle.conf.n))
                                ELSE Undefined
       IN  IF ~Truthy(plateNumber) THEN <<>>
           ELSE IF ~Truthy(validType) THEN <<>>
           ELSE IF ~Truthy(validColor) THEN <<>>
           ELSE <<Detection(plateNumber.s, validColor, validType, confidenceScore)>>

\* the loop of parseTrafficCameraResponse over parsed.vehicles
RECURSIVE validateTrafficCameraCars(_, _, _)
validateTrafficCameraCars(vehicles, timestamp, camera_metadata) ==
  IF vehicles = <<>> THEN <<>>
  ELSE LET v == validateTrafficCameraCar(Head(vehicles))
           rest == validateTrafficCameraCars(Tail(vehicles), timestamp, camera_metadata)
       IN  IF v = <<>> THEN rest
           ELSE <<[v[1] EXCEPT
                     !.timestamp = IF Truthy(timestamp) THEN timestamp ELSE @,
                     !.camera_info = IF Truthy(camera_metadata) THEN camera_metadata ELSE @]>>
                \o rest

\* 'NOT_FOUND', the placeholder validateAndCleanCars compares with
NotFoundText == <<"N","O","T","_","F","O","U","N","D">>

\* one pass of the loop of validateAndCleanCars
validateAndCleanCar(car) ==
  IF ~car.isObject THEN <<>>
  ELSE IF MissingRequired(car) THEN <<>>
  ELSE IF cleanPlateNumberThrows(car.plate) THEN <<>>
  ELSE LET cleanPlate == cleanPlateNumber(car.plate)
           cleanColor == cleanField(car.color, UnknownText)
           cleanType == cleanField(car.type, UnknownText)
       IN  IF cleanPlate = <<>> \/ cleanPlate = NotFoundText THEN <<>>
           ELSE <<Detection(cleanPlate, Str(cleanColor), Str(cleanType),
                            OrElse(car.conf, Num(DefaultConfidence)))>>

RECURSIVE validateAndCleanCars(_)
validateAndCleanCars(cars) ==
  IF cars = <<>> THEN <<>>
  ELSE validateAndCleanCar(Head(cars)) \o validateAndCleanCars(Tail(cars))

(***************************************************************************)
(* Inputs.                                                                 *)
(***************************************************************************)
\* longest plate text enumerated character by character
MaxLen == 3

\* longest run of one character appended to a stem (plates around the 15 limit)
MaxPad == 17

PlateAlphabet == {"A", "c", "2", "-", ".", "#", " ", "_", ":", "BULLET"}

RECURSIVE SeqsUpTo(_, _)
SeqsUpTo(S, n) ==
  IF n = 0 THEN {<<>>}
  ELSE LET r == SeqsUpTo(S, n - 1)
       IN  r \cup {Append(s, c) : s \in r, c \in S}

RECURSIVE Rep(_, _)
Rep(c, n) == IF n = 0 THEN <<>> ELSE <<c>> \o Rep(c, n - 1)

\* the plate texts of the repository's tests and of the specification's examples
ExamplePlates ==
  { <<"2","2","BULLET","2","4","8","6","9">>,
    <<"A","B",".","1","2","3">>,
    <<"A","B"," ","1","2","3">>,
    <<"X","Y","-","-","4","5","6">>,
    <<" "," ","A","B","C","-","1","2","3"," "," ">>,
    <<"N","O","T","_","F","O","U","N","D">>,
    <<"2","0","2","3","-","1","2","-","2","5">>,
    <<"1","2",":","3","4">>,
    <<"C","A","M","0","0","1">>,
    <<"-","-","-">>,
    <<"A">>,
    <<"A","B","C","D","E","F","G","H","I","J","K","L","M","N","O","P","Q","R","S","T","U","V","W","X","Y","Z">>,
    <<"V","E","H","I","C","L","E",":","1","5","7","6">>,
    <<"2","2","/","0","9","/","2","0","2","5">>,
    <<"1","5",":","5","5",":","5","4">>,
    <<"C","A","M","0","1">>,
    <<>>,
    <<"A","B","C","D","E","F","G","H","I","J","K","L","M","N","O","P">>,
    <<"2","2","2","4","8","6","5">>,
    <<"A","B","C","-","1","2","3">>,
    <<"A","B","-","1","2","3","4">>,
    <<"2","2","-","2","4","8","6","5">>,
    <<"A","-","#","-","B">>,
    <<"N","O","N","E">>,
    <<"N","U","L","L">>,
    <<"U","N","K","N","O","W","N">>,
    <<"N","O","T","F","O","U","N","D">>,
    <<"P","e","r","s","o","n",":","0">>,
    <<"N","o","n","V","e","h","i","c","l","e",":","0">>,
    <<"p","l","a","t","e"," ","n","u","m","b","e","r",":"," ","a","b"," ","1","2">>,
    <<"\"","A","B","-","1","2","\"">> }

PlateStems == {<<>>, <<"C","A","M">>, <<"A","-">>, <<"N","O","T">>, <<"#">>}

PaddedPlates == {stem \o Rep(c, n) : stem \in PlateStems, c \in {"A", "2"}, n \in 0..MaxPad}

PlateTexts == SeqsUpTo(PlateAlphabet, MaxLen) \cup ExamplePlates \cup PaddedPlates

ColorTexts ==
  { <<"w","h","i","t","e">>,
    <<"W","h","i","t","e">>,
    <<" ","R","E","D"," ">>,
    <<"g","r","e","y">>,
    <<"n","a","v","y">>,
    <<"t","u","r","q","u","o","i","s","e">>,
    <<"i","n","v","a","l","i","d","-","c","o","l","o","r">>,
    <<"d","a","r","k"," ","b","l","u","e">>,
    <<"#">>,
    <<"c","o","n","s","t","r","u","c","t","o","r">>,
    <<"m","a","r","o","o","n">>,
    <<"l","i","m","e">>,
    <<"b","e","i","g","e">>,
    <<"c","r","e","a","m">>,
    <<"g","o","l","d">>,
    <<>> }

TypeTexts ==
  { <<"s","e","d","a","n">>,
    <<"S","U","V">>,
    <<"s","u","v">>,
    <<"T","r","u","c","k">>,
    <<"c","a","r">>,
    <<"l","o","r","r","y">>,
    <<"p","i","c","k","u","p"," ","t","r","u","c","k">>,
    <<"m","o","t","o","r","b","i","k","e">>,
    <<"m","o","t","o","r","c","y","c","l","e">>,
    <<"i","n","v","a","l","i","d","-","t","y","p","e">>,
    <<"v","a","n">>,
    <<"c","o","a","c","h">>,
    <<"c","o","n","s","t","r","u","c","t","o","r">>,
    <<"#">>,
    <<>> }

CandPlateValues == {Str(s) : s \in ExamplePlates} \cup {Undefined, Num(5)}

CandColorValues == {Str(s) : s \in ColorTexts} \cup {Undefined, Num(5)}

CandTypeValues == {Str(s) : s \in TypeTexts} \cup {Undefined, Num(5)}

CandConfValues == {Undefined, Num(0), Num(95), Num(150), Num(0 - 5)}

Candidates ==
  {NullCand} \cup
  {Cand(p, c, t, k) : p \in CandPlateValues, c \in CandColorValues,
                      t \in CandTypeValues, k \in CandConfValues}

Plate_22_BULLET_24869 == <<"2","2","BULLET","2","4","8","6","9">>

Plate_22_24869 == <<"2","2","-","2","4","8","6","9">>

Plate_ABC_123 == <<"A","B","C","-","1","2","3">>

(***************************************************************************)
(* The plate functions applied to one plate text (specification SpecPlate).*)
(***************************************************************************)
IdlePlateRun ==
  [stage |-> "idle", text |-> <<>>, norm |-> <<>>, renorm |-> <<>>,
   strictOk |-> FALSE, traffic |-> Null, retraffic |-> Null]

IdleCandRun ==
  [stage |-> "idle", policy |-> "none", cand |-> NullCand, out |-> <<>>,
   cars |-> <<>>, i |-> 0, lenientOut |-> <<>>]

IdleBatch == [pc |-> "idle"]

IdleCameraRun == [stage |-> "idle"]

InitPlate ==
  /\ \E text \in PlateTexts : plateRun = [IdlePlateRun EXCEPT !.stage = "input", !.text = text]
  /\ candRun = IdleCandRun
  /\ batch = IdleBatch
  /\ cameraRun = IdleCameraRun

\* validateStrictCars line 203: normalizePlateNumber(car.plate_number)
PlateNormalize ==
  /\ plateRun.stage = "input"
  /\ plateRun' = [plateRun EXCEPT !.stage = "normalized",
                                  !.norm = normalizePlateNumber(Str(plateRun.text))]
  /\ UNCHANGED <<candRun, batch, cameraRun>>

\* the normalizer applied to its own output
PlateRenormalize ==
  /\ plateRun.stage = "normalized"
  /\ plateRun' = [plateRun EXCEPT !.stage = "renormalized",
                                  !.renorm = normalizePlateNumber(Str(plateRun.norm))]
  /\ UNCHANGED <<candRun, batch, cameraRun>>

\* validateStrictCars line 204: !normalizedPlate || !isValidPlateFormat(normalizedPlate)
PlateStrictValidate ==
  /\ plateRun.stage = "normalized"
  /\ plateRun' = [plateRun EXCEPT !.stage = "strictValidated",
                                  !.strictOk = /\ plateRun.norm # <<>>
                                               /\ isValidPlateFormat(plateRun.norm)]
  /\ UNCHANGED <<candRun, batch, cameraRun>>

PlateTrafficValidate ==
  /\ plateRun.stage = "input"
  /\ plateRun' = [plateRun EXCEPT !.stage = "trafficValidated",
                                  !.traffic = validateTrafficCameraPlate(Str(plateRun.text))]
  /\ UNCHANGED <<candRun, batch, cameraRun>>

\* validateTrafficCameraPlate applied to a plate it returned
PlateTrafficRevalidate ==
  /\ plateRun.stage = "trafficValidated"
  /\ plateRun.traffic # Null
  /\ plateRun' = [plateRun EXCEPT !.stage = "trafficRevalidated",
                                  !.retraffic = validateTrafficCameraPlate(plateRun.traffic)]
  /\ UNCHANGED <<candRun, batch, cameraRun>>

NextPlate ==
  \/ PlateTrafficRevalidate
  \/ PlateNormalize
  \/ PlateRenormalize
  \/ PlateStrictValidate
  \/ PlateTrafficValidate

SpecPlate == InitPlate /\ [][NextPlate]_vars

(***************************************************************************)
(* One candidate through each service's validator (specification SpecCand).*)
(***************************************************************************)
InitCand ==
  /\ \E cand \in Candidates : candRun = [IdleCandRun EXCEPT !.stage = "input", !.cand = cand]
  /\ plateRun = IdlePlateRun
  /\ batch = IdleBatch
  /\ cameraRun = IdleCameraRun

CandValidateStrict ==
  /\ candRun.stage = "input"
  /\ candRun' = [candRun EXCEPT !.stage = "validated", !.policy = "Strict",
                                !.out = validateStrictCars(<<candRun.cand>>)]
  /\ UNCHANGED <<plateRun, batch, cameraRun>>

CandValidateTraffic ==
  /\ candRun.stage = "input"
  /\ candRun' = [candRun EXCEPT !.stage = "validated", !.policy = "TrafficCamera",
                                !.out = validateTrafficCameraCars(<<candRun.cand>>,
                                                                  Undefined, Undefined)]
  /\ UNCHANGED <<plateRun, batch, cameraRun>>

CandValidateLenient ==
  /\ candRun.stage = "input"
  /\ candRun' = [candRun EXCEPT !.stage = "validated", !.policy = "Lenient",
                                !.out = validateAndCleanCars(<<candRun.cand>>)]
  /\ UNCHANGED <<plateRun, batch, cameraRun>>

\* the candidate given to validateStrictCars given to validateAndCleanCars too
\* (its plate read as plateNumber, its confidence as confidence)
CandValidateLenientAfterStrict ==
  /\ candRun.stage = "validated"
  /\ candRun.policy = "Strict"
  /\ candRun' = [candRun EXCEPT !.stage = "compared",
                                !.lenientOut = validateAndCleanCars(<<candRun.cand>>)]
  /\ UNCHANGED <<plateRun, batch, cameraRun>>

NextCand ==
  \/ CandValidateLenientAfterStrict
  \/ CandValidateStrict
  \/ CandValidateTraffic
  \/ CandValidateLenient

SpecCand == InitCand /\ [][NextCand]_vars

(***************************************************************************)
(* The validation loops over a list of candidates, one pass of the loop    *)
(* per step (specification SpecCandList): for (const car of cars) { try {  *)
(* ... validatedCars.push(...) } catch (error) { continue } }.             *)
(***************************************************************************)
\* longest list of candidates given to a validator
MaxCands == 3

\* the candidates of the repository's tests, and candidates that throw
ListCandidates ==
  { Cand(Str(<<"A","B","C","-","1","2","3">>), Str(<<"w","h","i","t","e">>),
         Str(<<"s","e","d","a","n">>), Undefined),
    Cand(Str(<<"A","B"," ","1","2","3">>), Str(<<" ","R","E","D"," ">>),
         Str(<<"T","r","u","c","k">>), Num(95)),
    Cand(Str(<<"A">>), Str(<<"w","h","i","t","e">>), Str(<<"s","e","d","a","n">>), Undefined),
    Cand(Str(<<>>), Str(<<"g","r","e","y">>), Undefined, Undefined),
    Cand(Num(5), Str(<<"w","h","i","t","e">>), Str(<<"s","e","d","a","n">>), Undefined),
    NullCand }

CandidateLists == UNION {[1..n -> ListCandidates] : n \in 0..MaxCands}

\* the pass throws: a field of null is read (all services), or
\* plateText.replace is called on a value that is no string (Lenient)
ValidationThrows(policy, car) ==
  \/ ~car.isObject
  \/ /\ policy = "Lenient"
     /\ ~MissingRequired(car)
     /\ cleanPlateNumberThrows(car.plate)

\* plausible slip: the try around the loop, so that a throw ends the loop
CatchAndContinue_LoopAborted(run) == [run EXCEPT !.i = Len(run.cars) + 1]

\* catch (error) { continue } inside the loop
CatchAndContinue(run) == [run EXCEPT !.i = @ + 1]

\* validatedCars.push(...) if the pass emits, then the next car
PushAndContinue(run, emitted) == [run EXCEPT !.out = @ \o emitted, !.i = @ + 1]

InitCandList ==
  /\ \E policy \in {"Strict", "TrafficCamera", "Lenient"}, cars \in CandidateLists :
        candRun = [IdleCandRun EXCEPT !.stage = "listLoop", !.policy = policy,
                                      !.cars = cars, !.i = 1]
  /\ plateRun = IdlePlateRun
  /\ batch = IdleBatch
  /\ cameraRun = IdleCameraRun

\* one pass of the loop of validateStrictCars
ListValidateStrictCar ==
  /\ candRun.stage = "listLoop"
  /\ candRun.policy = "Strict"
  /\ candRun.i <= Len(candRun.cars)
  /\ LET car == candRun.cars[candRun.i]
     IN  candRun' = IF ValidationThrows("Strict", car)
                      THEN CatchAndContinue(candRun)
                      ELSE PushAndContinue(candRun, validateStrictCar(car))
  /\ UNCHANGED <<plateRun, batch, cameraRun>>

\* one pass of the loop of parseTrafficCameraResponse; validateTrafficCameraCar
\* catches what it throws and returns null
ListValidateTrafficCar ==
  /\ candRun.stage = "listLoop"
  /\ candRun.policy = "TrafficCamera"
  /\ candRun.i <= Len(candRun.cars)
  /\ LET car == candRun.cars[candRun.i]
     IN  candRun' = IF ValidationThrows("TrafficCamera", car)
                      THEN CatchAndContinue(candRun)
                      ELSE PushAndContinue(candRun, validateTrafficCameraCar(car))
  /\ UNCHANGED <<plateRun, batch, cameraRun>>

\* one pass of the loop of validateAndCleanCars
ListValidateLenientCar ==
  /\ candRun.stage = "listLoop"
  /\ candRun.policy = "Lenient"
  /\ candRun.i <= Len(candRun.cars)
  /\ LET car == candRun.cars[candRun.i]
     IN  candRun' = IF ValidationThrows("Lenient", car)
                      THEN CatchAndContinue(candRun)
                      ELSE PushAndContinue(candRun, validateAndCleanCar(car))
  /\ UNCHANGED <<plateRun, batch, cameraRun>>

\* return validatedCars
ListReturn ==
  /\ candRun.stage = "listLoop"
  /\ candRun.i > Len(candRun.cars)
  /\ candRun' = [candRun EXCEPT !.stage = "listDone"]
  /\ UNCHANGED <<plateRun, batch, cameraRun>>

NextCandList ==
  \/ ListValidateStrictCar
  \/ ListValidateTrafficCar
  \/ ListValidateLenientCar
  \/ ListReturn

SpecCandList == InitCandList /\ [][NextCandList]_vars

(***************************************************************************)
(* Raw responses.  The text of a response is modelled by what JSON.parse   *)
(* and the services' regular expressions make of it:                       *)
(*   shape "array"  : a JSON array of candidates;                          *)
(*   shape "object" : a JSON object holding one array of candidates under  *)
(*                    key, and timestamp and camera_metadata;              *)
(*   shape "scalar" : the JSON text null;                                  *)
(*   shape "prose"  : text JSON.parse throws on and that holds no [ ] and  *)
(*                    no { }, with what the patterns of fallbackExtraction *)
(*                    find in it: plateMatches[i] is the plate-character   *)
(*                    run of the i-th /plate.*?(...)/ match, colorTails[i] *)
(*                    and typeTails[i] the text after the word 'color' or  *)
(*                    'type' of the i-th color or type match.              *)
(***************************************************************************)
ArrayContent(items) ==
  [shape |-> "array", key |-> "none", items |-> items, timestamp |-> Undefined,
   camera_metadata |-> Undefined, plateMatches |-> <<>>, colorTails |-> <<>>,
   typeTails |-> <<>>, text |-> <<>>]

ObjectContent(key, items, timestamp, camera_metadata) ==
  [shape |-> "object", key |-> key, items |-> items, timestamp |-> timestamp,
   camera_metadata |-> camera_metadata, plateMatches |-> <<>>, colorTails |-> <<>>,
   typeTails |-> <<>>, text |-> <<>>]

ScalarContent ==
  [shape |-> "scalar", key |-> "none", items |-> <<>>, timestamp |-> Undefined,
   camera_metadata |-> Undefined, plateMatches |-> <<>>, colorTails |-> <<>>,
   typeTails |-> <<>>, text |-> <<>>]

ProseContent(plateMatches, colorTails, typeTails) ==
  [shape |-> "prose", key |-> "none", items |-> <<>>, timestamp |-> Undefined,
   camera_metadata |-> Undefined, plateMatches |-> plateMatches,
   colorTails |-> colorTails, typeTails |-> typeTails, text |-> <<>>]

\* a plain-text answer, as extractLicensePlate asks for
TextContent(text) ==
  [shape |-> "text", key |-> "none", items |-> <<>>, timestamp |-> Undefined,
   camera_metadata |-> Undefined, plateMatches |-> <<>>, colorTails |-> <<>>,
   typeTails |-> <<>>, text |-> text]

\* parseTrafficCameraResponse: /\{[\s\S]*\}/ isolates the object; of a top-level
\* array it isolates an element (no vehicles field) or unparsable text
parseTrafficCameraResponse(content) ==
  IF content.shape = "object"
    THEN [cars |-> IF content.key = "vehicles"
                     THEN validateTrafficCameraCars(content.items, content.timestamp,
                                                    content.camera_metadata)
                     ELSE <<>>,
          timestamp |-> OrElse(content.timestamp, Undefined),
          camera_metadata |-> OrElse(content.camera_metadata, Undefined)]
    ELSE [cars |-> <<>>, timestamp |-> Undefined, camera_metadata |-> Undefined]

\* the candidates fallbackExtraction builds from the pattern matches
RECURSIVE FallbackCars(_, _, _, _)
FallbackCars(plateMatches, colorTails, typeTails, i) ==
  IF i > Len(plateMatches) THEN <<>>
  ELSE LET plateNumber == cleanPlateNumber(Str(plateMatches[i]))
           color == IF i <= Len(colorTails) /\ trim(colorTails[i]) # <<>>
                      THEN trim(colorTails[i]) ELSE UnknownText
           type == IF i <= Len(typeTails) /\ trim(typeTails[i]) # <<>>
                     THEN trim(typeTails[i]) ELSE UnknownText
           rest == FallbackCars(plateMatches, colorTails, typeTails, i + 1)
       IN  IF plateNumber # <<>>
             THEN <<Cand(Str(plateNumber), Str(color), Str(type), Undefined)>> \o rest
             ELSE rest

fallbackExtraction(content) ==
  FallbackCars(content.plateMatches, content.colorTails, content.typeTails, 1)

\* plausible slip: the pattern fallback of the Lenient service when parsing fails
parseStrictResponse_WithFallback(content) ==
  IF content.shape \in {"array", "object"} THEN content.items
  ELSE fallbackExtraction(content)

\* parseStrictResponse: /\[[\s\S]*\]/ isolates the array, also inside an object
parseStrictResponse(content) ==
  IF content.shape \in {"array", "object"} THEN content.items ELSE <<>>

\* parseVisionResponse: parsed.cars of an object, the fallback when JSON.parse
\* or reading null.cars throws
parseVisionResponse(content) ==
  IF content.shape = "object" /\ content.key = "cars" THEN content.items
  ELSE IF content.shape \in {"prose", "scalar"} THEN fallbackExtraction(content)
  ELSE <<>>

(***************************************************************************)
(* Per-item results: detectCarsStrict, detectCarsFromTrafficCamera and     *)
(* detectCars.  An image is modelled by what reading it and asking the     *)
(* model about it yields: readError (fs.readFile rejects), apiError (the   *)
(* completion call rejects), noContent (the trimmed content is empty or    *)
(* missing) or content.  rawResponse, a copy of the content, is left out.  *)
(***************************************************************************)
Services == {"Strict", "TrafficCamera", "Lenient"}

ReadErrorImage == [kind |-> "readError", content |-> ScalarContent]

ApiErrorImage == [kind |-> "apiError", content |-> ScalarContent]

\* the completion call rejects with a quota (429) error
QuotaErrorImage == [kind |-> "quotaError", content |-> ScalarContent]

NoContentImage == [kind |-> "noContent", content |-> ScalarContent]

ContentImage(content) == [kind |-> "content", content |-> content]

\* the catch block of the per-item method, and the batch loop's
FailureResult(message) ==
  [success |-> FALSE, cars |-> <<>>, totalDetected |-> 0, error |-> message,
   timestamp |-> Undefined, camera_metadata |-> Undefined]

\* plausible slip: success reported whatever the list holds
SuccessShape_AlwaysSuccess(cars, timestamp, camera_metadata) ==
  [success |-> TRUE, cars |-> cars, totalDetected |-> Len(cars),
   error |-> "none", timestamp |-> timestamp, camera_metadata |-> camera_metadata]

\* the result built after a successful parse
SuccessShape(cars, timestamp, camera_metadata) ==
  [success |-> Len(cars) > 0, cars |-> cars, totalDetected |-> Len(cars),
   error |-> "none", timestamp |-> timestamp, camera_metadata |-> camera_metadata]

\* the !content branch
NoContentResult(service) ==
  FailureResult(IF service = "Lenient" THEN "No response from ChatGPT Vision API"
                                       ELSE "No response from AI Vision API")

\* parse and validate a non-empty content
ContentResult(service, content) ==
  IF service = "Strict"
    THEN SuccessShape(validateStrictCars(parseStrictResponse(content)), Undefined, Undefined)
  ELSE IF service = "TrafficCamera"
    THEN LET parsedResult == parseTrafficCameraResponse(content)
         IN  SuccessShape(parsedResult.cars, parsedResult.timestamp,
                          parsedResult.camera_metadata)
  ELSE SuccessShape(validateAndCleanCars(parseVisionResponse(content)), Undefined, Undefined)

\* detectCarsStrict, detectCarsFromTrafficCamera, detectCars: what the method
\* returns for an image
VisionDetectResult(service, image) ==
  IF image.kind = "readError" THEN FailureResult("ENOENT: no such file")
  ELSE IF image.kind = "apiError" THEN FailureResult("API Error")
  ELSE IF image.kind = "quotaError" THEN FailureResult("429 You exceeded your current quota")
  ELSE IF image.kind = "noContent" THEN NoContentResult(service)
  ELSE ContentResult(service, image.content)

(***************************************************************************)
(* ChatGPTCarService (analyzeCars) and ChatGPTVisionService                *)
(* (extractLicensePlate).  A rejected call is modelled with the message of *)
(* the error it rejects with.                                              *)
(***************************************************************************)
\* s.includes(sub)
Includes(s, sub) ==
  \E i \in 1..(Len(s) - Len(sub) + 1) : SubSeq(s, i, i + Len(sub) - 1) = sub

\* the place of the first c in s, Len(s) + 1 when there is none
RECURSIVE IndexOf(_, _)
IndexOf(s, c) ==
  IF s = <<>> \/ Head(s) = c THEN 1 ELSE 1 + IndexOf(Tail(s), c)

\* String.prototype.charCodeAt for digits and ASCII letters
DigitSeq == <<"0","1","2","3","4","5","6","7","8","9">>

CharCode(c) ==
  IF c \in Digits THEN 47 + (CHOOSE i \in DOMAIN DigitSeq : DigitSeq[i] = c)
  ELSE IF c \in UpperLetters THEN 64 + (CHOOSE i \in DOMAIN UpperSeq : UpperSeq[i] = c)
  ELSE 96 + (CHOOSE i \in DOMAIN LowerSeq : LowerSeq[i] = c)

\* messages of the errors fs.readFile and the completion call reject with
ReadErrorMessage == <<"F","i","l","e"," ","n","o","t"," ","f","o","u","n","d">>

ApiErrorMessage == <<"A","P","I"," ","E","r","r","o","r">>

QuotaErrorMessage ==
  <<"4","2","9"," ","Y","o","u"," ","e","x","c","e","e","d","e","d"," ",
    "y","o","u","r"," ","q","u","o","t","a">>

\* errorMessage.includes('429') || includes('quota') || includes('exceeded')
isQuotaError(errorMessage) ==
  \/ Includes(errorMessage, <<"4","2","9">>)
  \/ Includes(errorMessage, <<"q","u","o","t","a">>)
  \/ Includes(errorMessage, <<"e","x","c","e","e","d","e","d">>)

\* generateDemoPlates: the tables
demoPlates ==
  << <<"2","1","-","8","3","1","6","8">>, <<"3","6","-","8","5","9","2","8">>,
     <<"2","2","-","2","4","8","6","9">>, <<"2","5","-","1","7","8","5","6">>,
     <<"2","9","-","2","6","2","6","1">>, <<"3","3","-","4","2","7","8","1">>,
     <<"2","7","-","6","5","4","3","2">>, <<"2","4","-","9","6","5","4","3">>,
     <<"3","1","-","2","3","4","5","6">>, <<"3","5","-","7","8","9","0","1">> >>

demoColors ==
  << <<"w","h","i","t","e">>, <<"b","l","a","c","k">>, <<"s","i","l","v","e","r">>,
     <<"r","e","d">>, <<"b","l","u","e">>, <<"g","r","a","y">>, <<"g","r","e","e","n">> >>

demoTypes ==
  << <<"s","e","d","a","n">>, <<"S","U","V">>, <<"h","a","t","c","h","b","a","c","k">>,
     <<"p","i","c","k","u","p">>, <<"v","a","n">>, <<"b","u","s">> >>

\* imageHash.split('').reduce((acc, char) => acc + char.charCodeAt(0), 0)
RECURSIVE hashNum(_)
hashNum(imageHash) ==
  IF imageHash = <<>> THEN 0 ELSE CharCode(Head(imageHash)) + hashNum(Tail(imageHash))

\* generateDemoPlates: one demo car chosen by the hash of the file name
generateDemoPlates(imageHash) ==
  LET h == hashNum(imageHash)
  IN  << Detection(demoPlates[(h % Len(demoPlates)) + 1],
                   demoColors[(h % Len(demoColors)) + 1],
                   demoTypes[(h % Len(demoTypes)) + 1], Undefined) >>

\* imagePath.split('/').pop()?.split('_')[0] || 'default', of a file name
imageHashOf(fileName) ==
  LET first == SubSeq(fileName, 1, IndexOf(fileName, "_") - 1)
  IN  IF first = <<>> THEN <<"d","e","f","a","u","l","t">> ELSE first

\* ChatGPTCarService.cleanPlateNumber: [^A-Z0-9-] removed regardless of case,
\* upper-cased, '' outside 2..15 characters
ChatCarMinPlateLength == 2

ChatCarMaxPlateLength == 15

ChatCarCleanPlateNumber(plateText) ==
  IF ~Truthy(plateText) \/ plateText.t # "string" THEN <<>>
  ELSE LET cleaned == toUpperCase(KeepOnly(plateText.s,
                        UpperLetters \cup LowerLetters \cup Digits \cup {"-"}))
       IN  IF Len(cleaned) < ChatCarMinPlateLength \/ Len(cleaned) > ChatCarMaxPlateLength
             THEN <<>> ELSE cleaned

\* validateCars: shortest cleaned plate kept
ChatCarShortestPlate == 3

\* cleanTextField: shortest cleaned text kept
ChatCarShortestField == 2

\* ChatGPTCarService.cleanTextField
cleanTextField(field) ==
  IF ~Truthy(field) \/ field.t # "string" THEN <<>>
  ELSE LET cleaned == KeepOnly(trim(toLowerCase(field.s)), LowerLetters \cup Digits)
       IN  IF Len(cleaned) < ChatCarShortestField THEN <<>> ELSE cleaned

\* one pass of the loop of validateCars; reading a field of null throws inside
\* the loop's own try and the element is skipped
validateCar(car) ==
  IF ~car.isObject \/ MissingRequired(car) THEN <<>>
  ELSE LET plate == ChatCarCleanPlateNumber(car.plate)
           color == cleanTextField(car.color)
           type == cleanTextField(car.type)
       IN  IF plate = <<>> \/ Len(plate) < ChatCarShortestPlate THEN <<>>
           ELSE IF color = <<>> \/ type = <<>> THEN <<>>
           ELSE <<Detection(plate, color, type, Undefined)>>

RECURSIVE validateCars(_)
validateCars(cars) ==
  IF cars = <<>> THEN <<>> ELSE validateCar(Head(cars)) \o validateCars(Tail(cars))

\* parseResponse on a JSON object (parsed.cars when it is an array) and on the
\* JSON text null, which loses every character to /^[^{]*/ so that JSON.parse
\* throws and extractDataManually finds nothing in it
parseResponse(content) ==
  IF content.shape = "object" /\ content.key = "cars" THEN content.items ELSE <<>>

\* the results of analyzeCars
ChatCarResult(success, cars, error, isDemo) ==
  [success |-> success, cars |-> cars, totalDetected |-> Len(cars),
   error |-> error, isDemo |-> isDemo]

\* the catch block of analyzeCars
analyzeCarsCatch(errorMessage, errorText, fileName) ==
  IF isQuotaError(errorMessage)
    THEN ChatCarResult(TRUE, generateDemoPlates(imageHashOf(fileName)), "none", TRUE)
    ELSE ChatCarResult(FALSE, <<>>, errorText, FALSE)

\* ChatGPTVisionService.cleanPlateNumber
NotFoundWords ==
  { <<"n","o","t","_","f","o","u","n","d">>, <<"n","o","t"," ","f","o","u","n","d">> }

VisionMinPlateLength == 3

VisionMaxPlateLength == 10

VisionCleanPlateNumber(plateText) ==
  IF plateText = <<>> \/ \E w \in NotFoundWords : Includes(toLowerCase(plateText), w)
    THEN NotFoundText
  ELSE LET a == toUpperCase(trim(StripPlateSuffix(StripPlatePrefix(plateText))))
           cleaned == StripEdgeQuotes(a)
       IN  IF ~(/\ Len(cleaned) >= VisionMinPlateLength
                /\ Len(cleaned) <= VisionMaxPlateLength
                /\ \A i \in DOMAIN cleaned :
                     cleaned[i] \in UpperLetters \cup Digits \cup Whitespace \cup {"-"})
             THEN NotFoundText
           ELSE KeepOnly(cleaned, UpperLetters \cup Digits \cup {"-"})

\* the results of extractLicensePlate
VisionResult(plateNumber, error) ==
  [plateNumber |-> plateNumber, success |-> plateNumber # NotFoundText, error |-> error]

\* the name of the image file, the last part of imagePath
ImageFileName == <<"i","m","g","1","_","c","a","r",".","j","p","g">>

\* analyzeCars: what the method returns for an image
analyzeCars(image) ==
  IF image.kind = "readError"
    THEN analyzeCarsCatch(ReadErrorMessage, "File not found", ImageFileName)
  ELSE IF image.kind = "apiError"
    THEN analyzeCarsCatch(ApiErrorMessage, "API Error", ImageFileName)
  ELSE IF image.kind = "quotaError"
    THEN analyzeCarsCatch(QuotaErrorMessage, "429 You exceeded your current quota",
                          ImageFileName)
  ELSE IF image.kind = "noContent"
    THEN ChatCarResult(FALSE, <<>>, "No response from ChatGPT Vision API", FALSE)
  ELSE LET validatedCars == validateCars(parseResponse(image.content))
       IN  ChatCarResult(Len(validatedCars) > 0, validatedCars, "none", FALSE)

\* extractLicensePlate: what the method returns for an image
extractLicensePlate(image) ==
  IF image.kind = "readError" THEN VisionResult(NotFoundText, "File not found")
  ELSE IF image.kind = "apiError" THEN VisionResult(NotFoundText, "API Error")
  ELSE IF image.kind = "quotaError"
    THEN VisionResult(NotFoundText, "429 You exceeded your current quota")
  ELSE IF image.kind = "noContent" THEN VisionResult(VisionCleanPlateNumber(NotFoundText), "none")
  ELSE VisionResult(VisionCleanPlateNumber(trim(image.content.text)), "none")

\* the per-item method of each service
DetectResult(service, image) ==
  IF service = "ChatGPTCar" THEN analyzeCars(image)
  ELSE IF service = "ChatGPTVision" THEN extractLicensePlate(image)
  ELSE VisionDetectResult(service, image)

(***************************************************************************)
(* Batch methods: detectCarsFromMultipleImagesStrict,                      *)
(* processMultipleTrafficCameraImages, detectCarsFromMultipleImages,       *)
(* analyzeMultipleImages and extractLicensePlatesFromMultipleImages        *)
(* (specification Spec).  The per-item method catches every exception, so  *)
(* the catch block of the batch loop is never entered.  batch.delays       *)
(* counts the pacing delays that have elapsed.                             *)
(***************************************************************************)
\* longest list of images given to a batch method
MaxBatch == 3

GoodCar == Cand(Str(Plate_ABC_123), Str(<<"w","h","i","t","e">>),
                Str(<<"s","e","d","a","n">>), Num(95))

BulletCar == Cand(Str(Plate_22_BULLET_24869), Str(<<"R","e","d">>),
                  Str(<<"S","U","V">>), Undefined)

NoColorCar == Cand(Str(<<"A","B","-","1","2","3","4">>), Undefined,
                   Str(<<"t","r","u","c","k">>), Num(150))

OverlayTimestamp ==
  Str(<<"2","2","/","0","9","/","2","0","2","5"," ","1","5",":","5","5",":","5","4">>)

OverlayMetadata == Str(<<"V","e","h","i","c","l","e",":","1","5","7","6">>)

Contents ==
  { ArrayContent(<<GoodCar, NullCand, BulletCar>>),
    ArrayContent(<<>>),
    ObjectContent("vehicles", <<BulletCar, GoodCar>>, OverlayTimestamp, OverlayMetadata),
    ObjectContent("cars", <<NoColorCar, GoodCar>>, Undefined, Undefined),
    ProseContent(<<>>, <<>>, <<>>),
    ProseContent(<<<<"A","B"," ","1","2">>>>, <<<<":"," ","w","h","i","t","e">>>>, <<>>),
    ProseContent(<<<<"A","B"," ","1","2">>>>, <<<<"w","h","i","t","e">>>>,
                 <<<<"s","e","d","a","n">>>>) }

Images ==
  {ReadErrorImage, ApiErrorImage, QuotaErrorImage, NoContentImage}
    \cup {ContentImage(c) : c \in Contents}

ImageLists == UNION {[1..n -> Images] : n \in 0..MaxBatch}

\* the services with a batch method
BatchServices == Services \cup {"ChatGPTCar", "ChatGPTVision"}

\* answers in the shape analyzeCars asks for
ChatCarContents ==
  { ObjectContent("cars", <<NoColorCar, GoodCar, NullCand>>, Undefined, Undefined),
    ObjectContent("cars", <<>>, Undefined, Undefined),
    ScalarContent }

\* answers in the shape extractLicensePlate asks for
PlateAnswers ==
  { Plate_ABC_123,
    <<"P","l","a","t","e"," ","n","u","m","b","e","r",":"," ","2","2"," ","2","4","8","6","9">>,
    <<"N","o","t"," ","f","o","u","n","d">> }

FailingImages == {ReadErrorImage, ApiErrorImage, QuotaErrorImage, NoContentImage}

ChatCarImages == FailingImages \cup {ContentImage(c) : c \in ChatCarContents}

ChatVisionImages == FailingImages \cup {ContentImage(TextContent(t)) : t \in PlateAnswers}

\* the lists of images a batch method of the service is run on
ImageListsOf(service) ==
  IF service = "ChatGPTCar" THEN UNION {[1..n -> ChatCarImages] : n \in 0..MaxBatch}
  ELSE IF service = "ChatGPTVision"
    THEN UNION {[1..n -> ChatVisionImages] : n \in 0..MaxBatch}
  ELSE ImageLists

\* the images given to each of two interleaved invocations
PairImages ==
  { ApiErrorImage,
    ReadErrorImage,
    ContentImage(ObjectContent("vehicles", <<GoodCar>>, Undefined, Undefined)) }

\* the images of a batch run to its return: those that fail and one that is
\* answered
LiveImagesOf(service) ==
  FailingImages \cup
    { IF service = "ChatGPTVision" THEN ContentImage(TextContent(Plate_ABC_123))
      ELSE IF service = "ChatGPTCar"
        THEN ContentImage(ObjectContent("cars", <<NoColorCar, GoodCar, NullCand>>,
                                        Undefined, Undefined))
      ELSE ContentImage(ObjectContent("vehicles", <<BulletCar, GoodCar>>,
                                      OverlayTimestamp, OverlayMetadata)) }

\* every image a batch method of the service is given
ImagesOf(service) ==
  IF service = "ChatGPTCar" THEN ChatCarImages
  ELSE IF service = "ChatGPTVision" THEN ChatVisionImages
  ELSE Images \cup PairImages

\* the per-item method of each service, tabulated over the images
PerItemResults ==
  [service \in BatchServices |->
     [image \in ImagesOf(service) |-> DetectResult(service, image)]]

\* await this.detectCarsStrict(imagePath) and its like: what the call resolves to
PerItemResult(service, image) == PerItemResults[service][image]

\* the batch loop awaits a one-second timer after each recorded result, except
\* in extractLicensePlatesFromMultipleImages
HasPacingDelay(service) == service # "ChatGPTVision"

\* plausible slip: results.unshift(result)
PushResult_Unshift(results, result) == <<result>> \o results

\* results.push(result)
PushResult(results, result) == Append(results, result)

Init ==
  /\ \E service \in BatchServices :
       \E imagePaths \in ImageListsOf(service) :
         batch = [pc |-> "loop", service |-> service, imagePaths |-> imagePaths,
                  i |-> 1, results |-> <<>>, delays |-> 0]
  /\ plateRun = IdlePlateRun
  /\ candRun = IdleCandRun
  /\ cameraRun = IdleCameraRun

CurrentImage == batch.imagePaths[batch.i]

\* plausible slip: the loop left when an item has failed
Recorded_StopOnFailure(result) ==
  IF ~result.success
    THEN [batch EXCEPT !.pc = "aborted", !.results = PushResult(@, result)]
  ELSE IF HasPacingDelay(batch.service)
    THEN [batch EXCEPT !.pc = "delay", !.results = PushResult(@, result)]
    ELSE [batch EXCEPT !.pc = "loop", !.i = @ + 1, !.results = PushResult(@, result)]

\* results.push(result), then the pacing delay or the next turn of the loop
Recorded(result) ==
  IF HasPacingDelay(batch.service)
    THEN [batch EXCEPT !.pc = "delay", !.results = PushResult(@, result)]
    ELSE [batch EXCEPT !.pc = "loop", !.i = @ + 1, !.results = PushResult(@, result)]

\* for (const imagePath of imagePaths): the next item's per-item call starts
BatchNextItem ==
  /\ batch.pc = "loop"
  /\ batch.i <= Len(batch.imagePaths)
  /\ batch' = [batch EXCEPT !.pc = "readFile"]
  /\ UNCHANGED <<plateRun, candRun, cameraRun>>

\* the list is exhausted: return results
BatchReturn ==
  /\ batch.pc = "loop"
  /\ batch.i > Len(batch.imagePaths)
  /\ batch' = [batch EXCEPT !.pc = "done"]
  /\ UNCHANGED <<plateRun, candRun, cameraRun>>

\* await fs.readFile rejects: the per-item catch returns a failure, pushed
ReadFileFails ==
  /\ batch.pc = "readFile"
  /\ CurrentImage.kind = "readError"
  /\ batch' = Recorded(PerItemResult(batch.service, CurrentImage))
  /\ UNCHANGED <<plateRun, candRun, cameraRun>>

\* await fs.readFile resolves: the completion call is issued
ReadFileSucceeds ==
  /\ batch.pc = "readFile"
  /\ CurrentImage.kind # "readError"
  /\ batch' = [batch EXCEPT !.pc = "apiCall"]
  /\ UNCHANGED <<plateRun, candRun, cameraRun>>

\* await create(...) rejects: the per-item catch returns a failure, pushed
ApiCallFails ==
  /\ batch.pc = "apiCall"
  /\ CurrentImage.kind \in {"apiError", "quotaError"}
  /\ batch' = Recorded(PerItemResult(batch.service, CurrentImage))
  /\ UNCHANGED <<plateRun, candRun, cameraRun>>

\* await create(...) resolves: parse, validate, return; the result is pushed
ApiCallReturns ==
  /\ batch.pc = "apiCall"
  /\ CurrentImage.kind \in {"noContent", "content"}
  /\ batch' = Recorded(PerItemResult(batch.service, CurrentImage))
  /\ UNCHANGED <<plateRun, candRun, cameraRun>>

\* await new Promise(resolve => setTimeout(resolve, 1000)) resolves
DelayElapsed ==
  /\ batch.pc = "delay"
  /\ batch' = [batch EXCEPT !.pc = "loop", !.i = @ + 1, !.delays = @ + 1]
  /\ UNCHANGED <<plateRun, candRun, cameraRun>>

Next ==
  \/ BatchNextItem
  \/ BatchReturn
  \/ ReadFileFails
  \/ ReadFileSucceeds
  \/ ApiCallFails
  \/ ApiCallReturns
  \/ DelayElapsed

Spec == Init /\ [][Next]_vars

(***************************************************************************)
(* The batch methods under fairness (specification SpecLive).  Every step  *)
(* of a batch is the continuation of a settled await: fs.readFile and the  *)
(* completion call settle (they return or fail), the one-second timer      *)
(* fires, and the event loop runs the continuation; so a step that is      *)
(* enabled is eventually taken.                                            *)
(***************************************************************************)
\* longest list of images of a batch run to its return
MaxLiveBatch == 3

InitLive ==
  /\ \E service \in BatchServices :
       \E n \in 0..MaxLiveBatch :
         \E imagePaths \in [1..n -> LiveImagesOf(service)] :
           batch = [pc |-> "loop", service |-> service, imagePaths |-> imagePaths,
                    i |-> 1, results |-> <<>>, delays |-> 0]
  /\ plateRun = IdlePlateRun
  /\ candRun = IdleCandRun
  /\ cameraRun = IdleCameraRun

SpecLive == InitLive /\ [][Next]_vars /\ WF_vars(Next)

(***************************************************************************)
(* Two invocations of a batch method on one service instance, interleaved  *)
(* at their await points (specification SpecPair).  The instance holds the *)
(* client this.openai only, set by the constructor; imagePaths, the loop   *)
(* position and results (const results = []) belong to the frame of the    *)
(* invocation.  batch.frames[k] is the frame of invocation k.              *)
(***************************************************************************)
\* longest list of images given to each of the two invocations
MaxPairBatch == 2

Invocations == {1, 2}

PairImageLists == UNION {[1..n -> PairImages] : n \in 0..MaxPairBatch}

\* plausible slip: results kept in a field of the instance (this.results)
ResultsFrame_OfInstance(k) == 1

\* the frame holding the results list invocation k pushes to and returns:
\* const results = [] is local to the invocation
ResultsFrame(k) == k

InitPair ==
  /\ \E service \in Services, paths \in [Invocations -> PairImageLists] :
        batch = [pc |-> "pair", service |-> service,
                 frames |-> [k \in Invocations |->
                               [pc |-> "loop", imagePaths |-> paths[k], i |-> 1,
                                results |-> <<>>, returned |-> <<>>]]]
  /\ plateRun = IdlePlateRun
  /\ candRun = IdleCandRun
  /\ cameraRun = IdleCameraRun

\* the frames after invocation k has pushed result and gone on to pc
PairRecorded(k, result, pc) ==
  LET pushed == [batch.frames EXCEPT ![ResultsFrame(k)].results = PushResult(@, result)]
  IN  [pushed EXCEPT ![k].pc = pc]

\* for (const imagePath of imagePaths): the next item's per-item call starts
PairNextItem ==
  \E k \in Invocations :
    /\ batch.pc = "pair"
    /\ batch.frames[k].pc = "loop"
    /\ batch.frames[k].i <= Len(batch.frames[k].imagePaths)
    /\ batch' = [batch EXCEPT !.frames[k].pc = "readFile"]
    /\ UNCHANGED <<plateRun, candRun, cameraRun>>

\* await fs.readFile settles: on rejection the failure is pushed, otherwise
\* the completion call is issued
PairReadFile ==
  \E k \in Invocations :
    /\ batch.pc = "pair"
    /\ batch.frames[k].pc = "readFile"
    /\ LET image == batch.frames[k].imagePaths[batch.frames[k].i]
       IN  batch' = IF image.kind = "readError"
                      THEN [batch EXCEPT !.frames =
                              PairRecorded(k, PerItemResult(batch.service, image), "delay")]
                      ELSE [batch EXCEPT !.frames[k].pc = "apiCall"]
    /\ UNCHANGED <<plateRun, candRun, cameraRun>>

\* await create(...) settles: the per-item result is pushed
PairApiCall ==
  \E k \in Invocations :
    /\ batch.pc = "pair"
    /\ batch.frames[k].pc = "apiCall"
    /\ LET image == batch.frames[k].imagePaths[batch.frames[k].i]
       IN  batch' = [batch EXCEPT !.frames =
                       PairRecorded(k, PerItemResult(batch.service, image), "delay")]
    /\ UNCHANGED <<plateRun, candRun, cameraRun>>

\* await new Promise(resolve => setTimeout(resolve, 1000)) resolves
PairDelayElapsed ==
  \E k \in Invocations :
    /\ batch.pc = "pair"
    /\ batch.frames[k].pc = "delay"
    /\ batch' = [batch EXCEPT !.frames[k].pc = "loop", !.frames[k].i = @ + 1]
    /\ UNCHANGED <<plateRun, candRun, cameraRun>>

\* the list is exhausted: return results
PairReturn ==
  \E k \in Invocations :
    /\ batch.pc = "pair"
    /\ batch.frames[k].pc = "loop"
    /\ batch.frames[k].i > Len(batch.frames[k].imagePaths)
    /\ batch' = [batch EXCEPT !.frames[k].pc = "done",
                              !.frames[k].returned = batch.frames[ResultsFrame(k)].results]
    /\ UNCHANGED <<plateRun, candRun, cameraRun>>

NextPair ==
  \/ PairNextItem
  \/ PairReadFile
  \/ PairApiCall
  \/ PairDelayElapsed
  \/ PairReturn

SpecPair == InitPair /\ [][NextPair]_vars

(***************************************************************************)
(* TrafficCameraVisionService.getTrafficCameraStats and extractTimestamp    *)
(* (specification SpecCamera).  averageConfidenceScore, a number rounded to two decimals, *)
(* is kept in hundredths.                                                  *)
(***************************************************************************)
\* longest list of results given to getTrafficCameraStats
MaxStatResults == 3

StatCar(confidence) ==
  Detection(Plate_ABC_123, Str(<<"B","l","u","e">>), Str(<<"S","U","V">>), confidence)

\* the confidences of the cars of one result
ConfidenceLists ==
  { <<>>,
    <<Num(95), Num(88)>>,
    <<Num(92)>>,
    <<Num(95), Num(88), Undefined>>,
    <<Undefined>>,
    <<Num(0), Undefined>>,
    <<Num(95), Num(88), Num(92)>>,
    <<Num(100), Num(1), Num(1)>> }

StatResults ==
  { SuccessShape([i \in DOMAIN confs |-> StatCar(confs[i])], timestamp, Undefined) :
      confs \in ConfidenceLists, timestamp \in {Undefined, OverlayTimestamp} }
    \cup {FailureResult("No vehicles detected")}

StatResultLists == UNION {[1..n -> StatResults] : n \in 0..MaxStatResults}

\* results.reduce((sum, r) => sum + r.totalDetected, 0)
RECURSIVE SumTotalDetected(_)
SumTotalDetected(results) ==
  IF results = <<>> THEN 0
  ELSE Head(results).totalDetected + SumTotalDetected(Tail(results))

\* plausible slip: a car without a confidence counted as confidence 0
AddConfidence_CountMissing(acc, car) ==
  [totalConfidence |-> acc.totalConfidence
                         + (IF car.confidence.t = "number" THEN car.confidence.n ELSE 0),
   confidenceCount |-> acc.confidenceCount + 1]

\* if (car.confidence_score !== undefined) { totalConfidence += ...; confidenceCount++ }
AddConfidence(acc, car) ==
  IF car.confidence # Undefined
    THEN [totalConfidence |-> acc.totalConfidence + car.confidence.n,
          confidenceCount |-> acc.confidenceCount + 1]
    ELSE acc

\* result.cars.forEach(...)
RECURSIVE AddCars(_, _)
AddCars(acc, cars) ==
  IF cars = <<>> THEN acc ELSE AddCars(AddConfidence(acc, Head(cars)), Tail(cars))

\* results.forEach(...)
RECURSIVE AddResults(_, _)
AddResults(acc, results) ==
  IF results = <<>> THEN acc
  ELSE AddResults(AddCars(acc, Head(results).cars), Tail(results))

\* Math.round(x * 100) / 100 of x = total / count, in hundredths
RoundToHundredths(total, count) == (200 * total + count) \div (2 * count)

getTrafficCameraStats(results) ==
  LET acc == AddResults([totalConfidence |-> 0, confidenceCount |-> 0], results)
      IsSuccess(r) == r.success
      HasTimestamp(r) == Truthy(r.timestamp)
  IN  [totalImages |-> Len(results),
       successfulDetections |-> Len(SelectSeq(results, IsSuccess)),
       totalVehiclesDetected |-> SumTotalDetected(results),
       averageConfidenceScore |->
         IF acc.confidenceCount > 0
           THEN RoundToHundredths(acc.totalConfidence, acc.confidenceCount)
           ELSE 0,
       timestampsExtracted |-> Len(SelectSeq(results, HasTimestamp))]

NoStats ==
  [totalImages |-> 0, successfulDetections |-> 0, totalVehiclesDetected |-> 0,
   averageConfidenceScore |-> 0, timestampsExtracted |-> 0]

(***************************************************************************)
(* StrictVisionService.getStrictDetectionStats and                         *)
(* EnhancedVisionService.getDetectionStats.  averageCarsPerImage and       *)
(* qualityScore, numbers rounded to two decimals, are kept in hundredths.  *)
(***************************************************************************)
\* plausible slip: the average cut to two decimals instead of rounded
averageCarsPerImage_Truncated(totalCarsDetected, totalImages) ==
  IF totalImages > 0 THEN (100 * totalCarsDetected) \div totalImages ELSE 0

\* Math.round((totalImages > 0 ? totalCarsDetected / totalImages : 0) * 100) / 100
averageCarsPerImage(totalCarsDetected, totalImages) ==
  IF totalImages > 0 THEN RoundToHundredths(totalCarsDetected, totalImages) ELSE 0

\* Math.round((totalImages > 0 ? (successfulDetections / totalImages) * 100 : 0) * 100) / 100
qualityScore(successfulDetections, totalImages) ==
  IF totalImages > 0 THEN RoundToHundredths(100 * successfulDetections, totalImages) ELSE 0

getStrictDetectionStats(results) ==
  LET IsSuccess(r) == r.success
      totalImages == Len(results)
      successfulDetections == Len(SelectSeq(results, IsSuccess))
      totalCarsDetected == SumTotalDetected(results)
  IN  [totalImages |-> totalImages,
       successfulDetections |-> successfulDetections,
       totalCarsDetected |-> totalCarsDetected,
       averageCarsPerImage |-> averageCarsPerImage(totalCarsDetected, totalImages),
       qualityScore |-> qualityScore(successfulDetections, totalImages)]

\* the object getDetectionStats returns has no qualityScore property
getDetectionStats(results) ==
  LET IsSuccess(r) == r.success
      totalImages == Len(results)
      successfulDetections == Len(SelectSeq(results, IsSuccess))
      totalCarsDetected == SumTotalDetected(results)
  IN  [totalImages |-> totalImages,
       successfulDetections |-> successfulDetections,
       totalCarsDetected |-> totalCarsDetected,
       averageCarsPerImage |-> averageCarsPerImage(totalCarsDetected, totalImages)]

\* stats[name] of a returned statistics object: a number, or undefined
StatField(stats, name) ==
  IF name \in DOMAIN stats THEN Num(stats[name]) ELSE Undefined

(***************************************************************************)
(* TrafficCameraVisionService.extractTimestamp.  A Date is modelled by its *)
(* time value, in seconds from the start of 1970, in a local time zone     *)
(* without clock changes; the getters decode it.  The time values of the   *)
(* years YearsDecoded fit the integers of the model checker.               *)
(***************************************************************************)
\* parseInt(digits, 10)
RECURSIVE parseInt(_)
parseInt(digits) ==
  IF digits = <<>> THEN 0
  ELSE 10 * parseInt(SubSeq(digits, 1, Len(digits) - 1))
         + (CHOOSE i \in DOMAIN DigitSeq : DigitSeq[i] = digits[Len(digits)]) - 1

IsLeapYear(y) == (y % 4 = 0 /\ y % 100 # 0) \/ y % 400 = 0

\* days from the start of year 0 to the start of year y (y >= 0)
DaysBeforeYear(y) ==
  IF y = 0 THEN 0
  ELSE 365 * y + ((y - 1) \div 4) - ((y - 1) \div 100) + ((y - 1) \div 400) + 1

MonthLengths(y) ==
  <<31, IF IsLeapYear(y) THEN 29 ELSE 28, 31, 30, 31, 30, 31, 31, 30, 31, 30, 31>>

\* days from the start of year y to the start of its month m (0-based, 0..12)
RECURSIVE DaysBeforeMonth(_, _)
DaysBeforeMonth(y, m) ==
  IF m = 0 THEN 0 ELSE DaysBeforeMonth(y, m - 1) + MonthLengths(y)[m]

SecondsPerDay == 86400

EpochYear == 1970

\* the years the getters decode
YearsDecoded == 1902..2037

\* new Date(year, monthIndex, day, hours, minutes, seconds): a year 0..99 means
\* 1900 + year, and fields out of range carry over
NewDate(year, monthIndex, day, hours, minutes, seconds) ==
  LET y == IF year >= 0 /\ year <= 99 THEN 1900 + year ELSE year
      ym == y + (monthIndex \div 12)
      mn == monthIndex % 12
      days == DaysBeforeYear(ym) - DaysBeforeYear(EpochYear)
                + DaysBeforeMonth(ym, mn) + day - 1
  IN  [t |-> "date", s |-> <<>>,
       n |-> days * SecondsPerDay + hours * 3600 + minutes * 60 + seconds]

\* the getters of Date
getFullYear(date) ==
  LET days == date.n \div SecondsPerDay
              + DaysBeforeYear(EpochYear)
  IN  CHOOSE y \in YearsDecoded :
        DaysBeforeYear(y) <= days /\ days < DaysBeforeYear(y + 1)

getMonth(date) ==
  LET y == getFullYear(date)
      dayOfYear == (date.n \div SecondsPerDay) + DaysBeforeYear(EpochYear)
                     - DaysBeforeYear(y)
  IN  CHOOSE m \in 0..11 :
        DaysBeforeMonth(y, m) <= dayOfYear /\ dayOfYear < DaysBeforeMonth(y, m + 1)

getDate(date) ==
  LET y == getFullYear(date)
  IN  (date.n \div SecondsPerDay) + DaysBeforeYear(EpochYear) - DaysBeforeYear(y)
        - DaysBeforeMonth(y, getMonth(date)) + 1

getHours(date) == (date.n % SecondsPerDay) \div 3600

getMinutes(date) == ((date.n % SecondsPerDay) % 3600) \div 60

getSeconds(date) == date.n % 60

\* the length of the run of whitespace of s that starts at position i
RECURSIVE WhitespaceRun(_, _)
WhitespaceRun(s, i) ==
  IF i <= Len(s) /\ s[i] \in Whitespace THEN 1 + WhitespaceRun(s, i + 1) ELSE 0

\* /(\d{2})\/(\d{2})\/(\d{4})\s+(\d{2}):(\d{2}):(\d{2})/ matches at position i
TimestampAt(s, i) ==
  LET j == i + 10 + WhitespaceRun(s, i + 10)
  IN  /\ DigitsAt(s, i, 2) /\ CharAt(s, i + 2, {"/"})
      /\ DigitsAt(s, i + 3, 2) /\ CharAt(s, i + 5, {"/"})
      /\ DigitsAt(s, i + 6, 4)
      /\ WhitespaceRun(s, i + 10) >= 1
      /\ DigitsAt(s, j, 2) /\ CharAt(s, j + 2, {":"})
      /\ DigitsAt(s, j + 3, 2) /\ CharAt(s, j + 5, {":"})
      /\ DigitsAt(s, j + 6, 2)

\* cameraMetadata.match(...): the position of the leftmost match from i on,
\* 0 when there is none
RECURSIVE timestampMatch(_, _)
timestampMatch(s, i) ==
  IF i > Len(s) THEN 0
  ELSE IF TimestampAt(s, i) THEN i
  ELSE timestampMatch(s, i + 1)

\* plausible slip: month and day taken in the order MM/DD
DateOfMatch_MonthFirst(s, i) ==
  LET j == i + 10 + WhitespaceRun(s, i + 10)
  IN  NewDate(parseInt(SubSeq(s, i + 6, i + 9)),
              parseInt(SubSeq(s, i, i + 1)) - 1,
              parseInt(SubSeq(s, i + 3, i + 4)),
              parseInt(SubSeq(s, j, j + 1)),
              parseInt(SubSeq(s, j + 3, j + 4)),
              parseInt(SubSeq(s, j + 6, j + 7)))

\* new Date(parseInt(year), parseInt(month) - 1, parseInt(day), ...) of the
\* groups of the match at position i
DateOfMatch(s, i) ==
  LET j == i + 10 + WhitespaceRun(s, i + 10)
  IN  NewDate(parseInt(SubSeq(s, i + 6, i + 9)),
              parseInt(SubSeq(s, i + 3, i + 4)) - 1,
              parseInt(SubSeq(s, i, i + 1)),
              parseInt(SubSeq(s, j, j + 1)),
              parseInt(SubSeq(s, j + 3, j + 4)),
              parseInt(SubSeq(s, j + 6, j + 7)))

extractTimestamp(cameraMetadata) ==
  IF ~Truthy(cameraMetadata) THEN Null
  ELSE LET i == timestampMatch(cameraMetadata.s, 1)
       IN  IF i > 0 THEN DateOfMatch(cameraMetadata.s, i) ELSE Null

\* metadata texts: prefix, DD sep MM sep YYYY, gap, time, suffix
StampPrefixes ==
  { <<>>, <<"1">>,
    <<"P","e","r","s","o","n",":","0"," ">>,
    <<"0","1","/","0","2","/","2","0","2","4"," ","0","3",":","0","4",":","0","5"," ">> }

StampDays == { <<"2","2">>, <<"0","1">>, <<"3","1">>, <<"0","0">> }

StampMonths == { <<"0","9">>, <<"0","2">>, <<"1","2">>, <<"1","3">> }

StampYears == { <<"2","0","2","5">>, <<"2","0","2","4">>, <<"0","0","9","9">> }

StampDateSeparators == {"/", "-"}

StampGaps == { <<" ">>, <<" ", "TAB">>, <<"T">>, <<>> }

StampTimes ==
  { <<"1","5",":","5","5",":","5","4">>, <<"0","0",":","0","0",":","0","0">>,
    <<"2","3",":","5","9",":","5","9">>, <<"1","5",":","5","5",":","5">> }

StampSuffixes == { <<>>, <<"9">> }

MetadataTexts ==
  { prefix \o dd \o <<sep>> \o mm \o <<sep>> \o yyyy \o gap \o time \o suffix :
      prefix \in StampPrefixes, dd \in StampDays, sep \in StampDateSeparators,
      mm \in StampMonths, yyyy \in StampYears, gap \in StampGaps,
      time \in StampTimes, suffix \in StampSuffixes }

MetadataValues ==
  {Undefined, Str(<<>>), Str(<<"N","o"," ","t","i","m","e","s","t","a","m","p">>)}
    \cup {Str(text) : text \in MetadataTexts}

InitCamera ==
  /\ \/ \E results \in StatResultLists :
          cameraRun = [stage |-> "input", op |-> "stats", results |-> results,
                       stats |-> NoStats, detectionStats |-> getDetectionStats(<<>>),
                       metadata |-> Undefined, date |-> Null]
     \/ \E metadata \in MetadataValues :
          cameraRun = [stage |-> "input", op |-> "timestamp", results |-> <<>>,
                       stats |-> NoStats, detectionStats |-> getDetectionStats(<<>>),
                       metadata |-> metadata, date |-> Null]
  /\ plateRun = IdlePlateRun
  /\ candRun = IdleCandRun
  /\ batch = IdleBatch

\* extractTimestamp(cameraMetadata)
ExtractTimestamp ==
  /\ cameraRun.stage = "input"
  /\ cameraRun.op = "timestamp"
  /\ cameraRun' = [cameraRun EXCEPT !.stage = "timestamp",
                                    !.date = extractTimestamp(cameraRun.metadata)]
  /\ UNCHANGED <<plateRun, candRun, batch>>

\* getTrafficCameraStats(results)
GetTrafficCameraStats ==
  /\ cameraRun.stage = "input"
  /\ cameraRun.op = "stats"
  /\ cameraRun' = [cameraRun EXCEPT !.stage = "stats",
                                    !.stats = getTrafficCameraStats(cameraRun.results)]
  /\ UNCHANGED <<plateRun, candRun, batch>>

\* getStrictDetectionStats(results)
GetStrictDetectionStats ==
  /\ cameraRun.stage = "input"
  /\ cameraRun.op = "stats"
  /\ cameraRun' = [cameraRun EXCEPT !.stage = "strictStats",
                                    !.detectionStats = getStrictDetectionStats(cameraRun.results)]
  /\ UNCHANGED <<plateRun, candRun, batch>>

\* getDetectionStats(results)
GetDetectionStats ==
  /\ cameraRun.stage = "input"
  /\ cameraRun.op = "stats"
  /\ cameraRun' = [cameraRun EXCEPT !.stage = "lenientStats",
                                    !.detectionStats = getDetectionStats(cameraRun.results)]
  /\ UNCHANGED <<plateRun, candRun, batch>>

NextCamera ==
  \/ GetTrafficCameraStats
  \/ GetStrictDetectionStats
  \/ GetDetectionStats
  \/ ExtractTimestamp

SpecCamera == InitCamera /\ [][NextCamera]_vars

(***************************************************************************)
(* Properties.                                                             *)
(***************************************************************************)
\* C1: the Strict plate normalizer is idempotent: normalizing an already
\* normalized plate yields the same string.
C1_NormalizerIdempotent ==
  plateRun.stage = "renormalized" => plateRun.renorm = plateRun.norm

\* C2: under Strict the candidate ('22•24869', 'white', 'sedan') is accepted as
\* exactly one car: plate '22-24869', color 'White', type 'Sedan'.
C2_BulletPlateAccepted ==
  (/\ candRun.stage = "validated"
   /\ candRun.policy = "Strict"
   /\ candRun.cand.isObject
   /\ candRun.cand.plate = Str(Plate_22_BULLET_24869)
   /\ candRun.cand.color = Str(<<"w","h","i","t","e">>)
   /\ candRun.cand.type = Str(<<"s","e","d","a","n">>))
  => candRun.out = <<Detection(Plate_22_24869, Str(<<"W","h","i","t","e">>),
                               Str(<<"S","e","d","a","n">>), Undefined)>>

\* DD/MM/YYYY
IsSlashDate(s) ==
  /\ Len(s) = 10
  /\ DigitsAt(s, 1, 2) /\ s[3] = "/" /\ DigitsAt(s, 4, 2) /\ s[6] = "/" /\ DigitsAt(s, 7, 4)

\* HH:MM:SS
IsClockTime(s) ==
  /\ Len(s) = 8
  /\ DigitsAt(s, 1, 2) /\ s[3] = ":" /\ DigitsAt(s, 4, 2) /\ s[6] = ":" /\ DigitsAt(s, 7, 2)

\* the camera-overlay texts of C3
IsOverlayNoise(s) ==
  \/ IsSlashDate(s)
  \/ IsClockTime(s)
  \/ CameraIdPattern(s) /\ \A i \in 4..Len(s) : IsDigit(s[i])
  \/ CameraMetadataPattern(s)
  \/ Len(s) < MinPlateLength
  \/ Len(s) > MaxPlateLength

\* C3: validateTrafficCameraPlate returns null for every camera-overlay text:
\* a date DD/MM/YYYY, a time HH:MM:SS, CAM<digits>, VEHICLE/NONVEHICLE/PERSON
\* telemetry, the empty string, a text shorter than 2 or longer than 15.
C3_TrafficRejectsOverlayNoise ==
  (plateRun.stage = "trafficValidated" /\ IsOverlayNoise(plateRun.text))
  => plateRun.traffic = Null

C4_Plates ==
  { <<"2","0","2","3","-","1","2","-","2","5">>,
    <<"1","2",":","3","4">>,
    <<"C","A","M","0","0","1">>,
    <<"V","E","H","I","C","L","E",":","1","5","7","6">>,
    <<"-","-","-">> }

\* C4: under Strict a candidate whose plate text is '2023-12-25', '12:34',
\* 'CAM001', 'VEHICLE:1576' or '---' is rejected, whatever its color and type.
C4_StrictRejectsNonPlates ==
  (/\ candRun.stage = "validated"
   /\ candRun.policy = "Strict"
   /\ candRun.cand.plate.t = "string"
   /\ candRun.cand.plate.s \in C4_Plates)
  => candRun.out = <<>>

\* a color text with no vocabulary and no synonym match
NoColorMatch(color) == color.t = "string" /\ color.s # <<>> /\ validateColor(color) = Null

\* a candidate whose plate and type every service accepts
PlainCar(car) ==
  /\ car.isObject
  /\ car.plate = Str(Plate_ABC_123)
  /\ car.type = Str(<<"s","e","d","a","n">>)

\* C5: for a valid plate and type and a color with no vocabulary or synonym
\* match ('turquoise'), Lenient emits a detection with color 'unknown' and
\* Strict rejects the candidate.
C5_UnmatchedColor ==
  (/\ candRun.stage = "validated"
   /\ PlainCar(candRun.cand)
   /\ NoColorMatch(candRun.cand.color))
  => /\ candRun.policy = "Lenient"
          => Len(candRun.out) = 1 /\ candRun.out[1].color = Str(UnknownText)
     /\ candRun.policy = "Strict" => candRun.out = <<>>

\* an absent or empty field
Absent(v) == v = Undefined \/ v = Str(<<>>)

\* C6: a candidate with a valid plate and an absent or empty color or type is
\* rejected under Strict and TrafficCamera and accepted under Lenient.
C6_MissingColorOrType ==
  (/\ candRun.stage = "validated"
   /\ candRun.cand.isObject
   /\ candRun.cand.plate = Str(Plate_ABC_123)
   /\ (Absent(candRun.cand.color) \/ Absent(candRun.cand.type)))
  => /\ candRun.policy \in {"Strict", "TrafficCamera"} => candRun.out = <<>>
     /\ candRun.policy = "Lenient" => Len(candRun.out) = 1

ColorVocabulary ==
  { <<"R","e","d">>, <<"B","l","u","e">>, <<"G","r","e","e","n">>,
    <<"Y","e","l","l","o","w">>, <<"B","l","a","c","k">>, <<"W","h","i","t","e">>,
    <<"G","r","a","y">>, <<"S","i","l","v","e","r">>, <<"B","r","o","w","n">>,
    <<"O","r","a","n","g","e">> }

StrictTypeVocabulary ==
  { <<"S","e","d","a","n">>, <<"S","U","V">>, <<"P","i","c","k","u","p">>,
    <<"T","r","u","c","k">>, <<"B","u","s">> }

TrafficTypeVocabulary == StrictTypeVocabulary \cup {<<"M","o","t","o","r","c","y","c","l","e">>}

\* C7: every detection the Strict or TrafficCamera validator emits has its
\* color in the color vocabulary and its type in the type vocabulary of the
\* service.
C7_EmittedInVocabulary ==
  (candRun.stage = "validated" /\ candRun.policy \in {"Strict", "TrafficCamera"})
  => \A i \in DOMAIN candRun.out :
       /\ candRun.out[i].color \in {Str(c) : c \in ColorVocabulary}
       /\ candRun.out[i].type \in
            {Str(t) : t \in IF candRun.policy = "Strict"
                              THEN StrictTypeVocabulary ELSE TrafficTypeVocabulary}

\* only letters A-Z and digits, of length 2 or 15
AlnumAtBound(s) ==
  /\ Len(s) \in {MinPlateLength, MaxPlateLength}
  /\ \A i \in DOMAIN s : s[i] \in UpperLetters \cup Digits

OutOfBounds(s) == Len(s) < MinPlateLength \/ Len(s) > MaxPlateLength

\* C8 as stated: under Strict and TrafficCamera a plate whose normalized form
\* has fewer than 2 or more than 15 characters is rejected, and an alphanumeric
\* plate of exactly 2 or exactly 15 characters is accepted.
C8_LengthBoundsAsStated ==
  /\ plateRun.stage = "strictValidated"
       => /\ OutOfBounds(plateRun.norm) => ~plateRun.strictOk
          /\ AlnumAtBound(plateRun.text) => plateRun.strictOk
  /\ plateRun.stage = "trafficValidated"
       => /\ OutOfBounds(TrafficCleaned(plateRun.text)) => plateRun.traffic = Null
          /\ AlnumAtBound(plateRun.text) => plateRun.traffic = Str(plateRun.text)

\* the exclusion patterns of C8 as amended, spelled out on an alphanumeric text
OnlyDigits(s) == \A i \in DOMAIN s : IsDigit(s[i])

CameraIdStart(s) == Len(s) >= 4 /\ SubSeq(s, 1, 3) = <<"C","A","M">> /\ IsDigit(s[4])

TelemetryWord(s) ==
  \/ Len(s) >= 7 /\ SubSeq(s, 1, 7) = <<"V","E","H","I","C","L","E">>
  \/ Len(s) >= 10 /\ SubSeq(s, 1, 10) = <<"N","O","N","V","E","H","I","C","L","E">>
  \/ Len(s) >= 6 /\ SubSeq(s, 1, 6) = <<"P","E","R","S","O","N">>

\* C8 as amended: under Strict and TrafficCamera a plate whose normalized form
\* has fewer than 2 or more than 15 characters is rejected; an alphanumeric
\* (A-Z, 0-9) plate of exactly 2 or exactly 15 characters is accepted unless it
\* starts with CAM<digit>, and, under Strict, unless it is made of digits only,
\* and, under TrafficCamera, unless it starts with VEHICLE, NONVEHICLE or PERSON.
C8_LengthBounds ==
  /\ plateRun.stage = "strictValidated"
       => /\ OutOfBounds(plateRun.norm) => ~plateRun.strictOk
          /\ (/\ AlnumAtBound(plateRun.text)
              /\ ~CameraIdStart(plateRun.text)
              /\ ~OnlyDigits(plateRun.text)) => plateRun.strictOk
  /\ plateRun.stage = "trafficValidated"
       => /\ OutOfBounds(TrafficCleaned(plateRun.text)) => plateRun.traffic = Null
          /\ (/\ AlnumAtBound(plateRun.text)
              /\ ~CameraIdStart(plateRun.text)
              /\ ~TelemetryWord(plateRun.text)) => plateRun.traffic = Str(plateRun.text)

\* C8 witness: a 15-character alphanumeric plate accepted by the Strict validator
C8_Witness ==
  /\ plateRun.stage = "strictValidated"
  /\ Len(plateRun.text) = MaxPlateLength
  /\ AlnumAtBound(plateRun.text)
  /\ plateRun.strictOk

ResultWellFormed(r) ==
  /\ r.success <=> r.cars # <<>>
  /\ r.totalDetected = Len(r.cars)

\* C9 as stated: for every per-item result, success holds exactly when cars is
\* non-empty and totalDetected is the length of cars; a response with zero
\* accepted candidates gives success=false, cars=[], totalDetected=0 and no
\* error.
C9_ResultShapeAsStated ==
  batch.service \in Services =>
  \A k \in DOMAIN batch.results :
    /\ ResultWellFormed(batch.results[k])
    /\ (/\ batch.imagePaths[k].kind \in {"content", "noContent"}
        /\ batch.results[k].cars = <<>>)
       => /\ ~batch.results[k].success
          /\ batch.results[k].totalDetected = 0
          /\ batch.results[k].error = "none"

\* C9 as amended: for every per-item result, success holds exactly when cars is
\* non-empty and totalDetected is the length of cars; a non-empty response with
\* zero accepted candidates gives success=false, cars=[], totalDetected=0 and
\* no error, while an empty or missing response content gives the same with the
\* error 'No response from ... Vision API'.
C9_ResultShape ==
  batch.service \in Services =>
  \A k \in DOMAIN batch.results :
    /\ ResultWellFormed(batch.results[k])
    /\ (batch.imagePaths[k].kind = "content" /\ batch.results[k].cars = <<>>)
       => /\ ~batch.results[k].success
          /\ batch.results[k].totalDetected = 0
          /\ batch.results[k].error = "none"
    /\ batch.imagePaths[k].kind = "noContent"
       => /\ ~batch.results[k].success
          /\ batch.results[k].cars = <<>>
          /\ batch.results[k].totalDetected = 0
          /\ batch.results[k].error # "none"

\* C9 witness: a non-empty response all of whose candidates were rejected, and
\* a response with an accepted candidate, both recorded
C9_Witness ==
  /\ batch.service \in Services
  /\ \E k \in DOMAIN batch.results :
       /\ batch.imagePaths[k].kind = "content"
       /\ batch.imagePaths[k].content.items # <<>>
       /\ batch.results[k].cars = <<>>
       /\ batch.results[k].error = "none"
  /\ \E k \in DOMAIN batch.results : batch.results[k].success

\* C10: a batch method returns exactly one result per input, in input order,
\* result k being the per-item result of input k; an item whose processing
\* failed is marked success=false and the other results are unaffected.
C10_BatchOrderAndIsolation ==
  batch.service \in Services =>
  /\ Len(batch.results) <= Len(batch.imagePaths)
  /\ \A k \in DOMAIN batch.results :
       /\ batch.results[k] = DetectResult(batch.service, batch.imagePaths[k])
       /\ batch.imagePaths[k].kind \in {"readError", "apiError", "quotaError"}
            => ~batch.results[k].success /\ batch.results[k].cars = <<>>
  /\ batch.pc = "done" => Len(batch.results) = Len(batch.imagePaths)

\* C10 witness: a returned batch of three whose second item failed and whose
\* first and third items succeeded
C10_Witness ==
  /\ batch.service \in Services
  /\ batch.pc = "done"
  /\ Len(batch.imagePaths) = 3
  /\ Len(batch.results) = 3
  /\ batch.imagePaths[2].kind = "apiError"
  /\ batch.results[1].success
  /\ ~batch.results[2].success
  /\ batch.results[3].success
  /\ batch.imagePaths[1] # batch.imagePaths[3]

\* the failing kinds of image: reading the file or the model call rejects
FailedKinds == {"readError", "apiError", "quotaError"}

\* C11: every batch method processes its items one at a time with a pacing
\* delay between them: while item i is being read or asked about, the results
\* of the i-1 items before it are recorded and the i-1 pacing delays after
\* them have elapsed.
C11_PacedOneAtATime ==
  batch.pc \in {"readFile", "apiCall"}
    => /\ Len(batch.results) = batch.i - 1
       /\ batch.delays = batch.i - 1

\* C12: when reading the image or the model call fails (quota errors
\* included), the per-item result of every service is success=false with no
\* detection, totalDetected=0 and the error message captured.
C12_FailedItemResult ==
  \A k \in DOMAIN batch.results :
    batch.imagePaths[k].kind \in FailedKinds
      => /\ ~batch.results[k].success
         /\ batch.results[k].error # "none"
         /\ IF batch.service = "ChatGPTVision"
              THEN batch.results[k].plateNumber = NotFoundText
              ELSE /\ batch.results[k].cars = <<>>
                   /\ batch.results[k].totalDetected = 0

\* the content is not the JSON the service expects: no array to isolate
\* (Strict), no object with a vehicles list (TrafficCamera)
Unparsable(service, content) ==
  IF service = "Strict" THEN content.shape \notin {"array", "object"}
  ELSE content.shape # "object" \/ content.key # "vehicles"

\* C13: whatever the text of the response (prose, JSON of the wrong shape, a
\* list with null elements), the per-item method returns a result and raises
\* nothing; under Strict and TrafficCamera a response that cannot be parsed as
\* the expected JSON gives success=false with an empty cars list.
C13_MalformedResponse ==
  batch.service \in Services =>
  \A k \in DOMAIN batch.results :
    batch.imagePaths[k].kind = "content"
      => /\ ResultWellFormed(batch.results[k])
         /\ batch.results[k].error = "none"
         /\ (/\ batch.service \in {"Strict", "TrafficCamera"}
             /\ Unparsable(batch.service, batch.imagePaths[k].content))
            => /\ ~batch.results[k].success
               /\ batch.results[k].cars = <<>>

\* C13 witness: Strict was given prose naming a plate, a color and a type,
\* and a list with a null element, and returned a result for both
C13_Witness ==
  /\ batch.service = "Strict"
  /\ \E k \in DOMAIN batch.results :
       /\ batch.imagePaths[k].kind = "content"
       /\ batch.imagePaths[k].content.shape = "prose"
       /\ batch.imagePaths[k].content.typeTails # <<>>
       /\ ~batch.results[k].success
  /\ \E k \in DOMAIN batch.results :
       /\ batch.imagePaths[k].kind = "content"
       /\ \E j \in DOMAIN batch.imagePaths[k].content.items :
            ~batch.imagePaths[k].content.items[j].isObject
       /\ batch.results[k].success

\* the confidences of all cars of the results, in order
RECURSIVE AllConfidences(_)
AllConfidences(results) ==
  IF results = <<>> THEN <<>>
  ELSE [i \in DOMAIN Head(results).cars |-> Head(results).cars[i].confidence]
         \o AllConfidences(Tail(results))

RECURSIVE SumOfNumbers(_)
SumOfNumbers(values) ==
  IF values = <<>> THEN 0 ELSE Head(values).n + SumOfNumbers(Tail(values))

IsNumber(v) == v.t = "number"

\* C14: averageConfidenceScore is the mean (to two decimals) of the confidences
\* of the detections that carry one; detections without a confidence enter
\* neither the sum nor the count; it is 0 when no detection carries one.
\* 95, 88 and one missing give 91.5; 95, 88, 92 give 91.67.
C14_AverageOverPresent ==
  cameraRun.stage = "stats" =>
    LET all == AllConfidences(cameraRun.results)
        present == SelectSeq(all, IsNumber)
        n == Len(present)
        sum == SumOfNumbers(present)
        h == cameraRun.stats.averageConfidenceScore
    IN  /\ n = 0 => h = 0
        /\ n > 0 => /\ 2 * n * h - n <= 200 * sum
                    /\ 200 * sum < 2 * n * h + n
        /\ all = <<Num(95), Num(88), Undefined>> => h = 9150
        /\ all = <<Num(95), Num(88), Num(92)>> => h = 9167

\* C14 witness: statistics of two results, one car without a confidence
\* among cars with one, the mean being that of the present ones only
C14_Witness ==
  /\ cameraRun.stage = "stats"
  /\ Len(cameraRun.results) = 2
  /\ AllConfidences(cameraRun.results) = <<Num(95), Num(88), Undefined, Num(92)>>
  /\ cameraRun.stats.averageConfidenceScore = 9167

\* the text has, from position i on, DD/MM/YYYY, whitespace, HH:MM:SS
HasTimestampShapeAt(s, i) ==
  \E w \in 1..Len(s) :
    /\ Len(s) >= i + 17 + w
    /\ \A k \in {0, 1, 3, 4, 6, 7, 8, 9} : s[i + k] \in Digits
    /\ s[i + 2] = "/" /\ s[i + 5] = "/"
    /\ \A k \in 10..(9 + w) : s[i + k] \in Whitespace
    /\ \A k \in {0, 1, 3, 4, 6, 7} : s[i + 10 + w + k] \in Digits
    /\ s[i + 12 + w] = ":" /\ s[i + 15 + w] = ":"

\* the number a text of digits denotes
RECURSIVE DigitsValue(_)
DigitsValue(digits) ==
  IF digits = <<>> THEN 0
  ELSE LET last == digits[Len(digits)]
       IN  10 * DigitsValue(SubSeq(digits, 1, Len(digits) - 1))
             + (CHOOSE d \in 0..9 : DigitSeq[d + 1] = last)

\* the fields of the timestamp at position i of s
StampFields(s, i) ==
  LET w == CHOOSE n \in 1..Len(s) :
             /\ \A k \in 10..(9 + n) : s[i + k] \in Whitespace
             /\ s[i + 10 + n] \notin Whitespace
  IN  [day |-> DigitsValue(SubSeq(s, i, i + 1)),
       month |-> DigitsValue(SubSeq(s, i + 3, i + 4)),
       year |-> DigitsValue(SubSeq(s, i + 6, i + 9)),
       hour |-> DigitsValue(SubSeq(s, i + 10 + w, i + 11 + w)),
       minute |-> DigitsValue(SubSeq(s, i + 13 + w, i + 14 + w)),
       second |-> DigitsValue(SubSeq(s, i + 16 + w, i + 17 + w))]

\* calendar values in range: a four-digit year from 100 on, a day of the
\* month, a time of day
InCalendarRange(f) ==
  /\ f.year >= 100
  /\ f.month \in 1..12
  /\ f.day >= 1 /\ f.day <= MonthLengths(f.year)[f.month]
  /\ f.hour \in 0..23 /\ f.minute \in 0..59 /\ f.second \in 0..59

\* C15: extractTimestamp returns a date exactly when the metadata contains a
\* substring of shape DD/MM/YYYY HH:MM:SS; the date is that of the first such
\* substring read day first (for calendar values in range: day DD, month
\* index MM-1, year YYYY, and the time as given); it returns null for
\* undefined or empty metadata and for metadata without such a substring.
C15_ExtractTimestamp ==
  cameraRun.stage = "timestamp" =>
    LET metadata == cameraRun.metadata
        found == IF metadata.t = "string"
                   THEN {i \in DOMAIN metadata.s : HasTimestampShapeAt(metadata.s, i)}
                   ELSE {}
    IN  /\ cameraRun.date # Null <=> found # {}
        /\ found # {} =>
             LET first == CHOOSE i \in found : \A k \in found : i <= k
                 f == StampFields(metadata.s, first)
             IN  InCalendarRange(f) =>
                   /\ getDate(cameraRun.date) = f.day
                   /\ getMonth(cameraRun.date) = f.month - 1
                   /\ getFullYear(cameraRun.date) = f.year
                   /\ getHours(cameraRun.date) = f.hour
                   /\ getMinutes(cameraRun.date) = f.minute
                   /\ getSeconds(cameraRun.date) = f.second

\* C15 witness: a date of 1 February 2024, 03:04:05 extracted from metadata
\* that holds two timestamps, the first one being 01/02/2024 03:04:05
C15_Witness ==
  /\ cameraRun.stage = "timestamp"
  /\ cameraRun.date # Null
  /\ Cardinality({i \in DOMAIN cameraRun.metadata.s :
                    HasTimestampShapeAt(cameraRun.metadata.s, i)}) = 2
  /\ getDate(cameraRun.date) = 1
  /\ getMonth(cameraRun.date) = 1
  /\ getFullYear(cameraRun.date) = 2024
  /\ getHours(cameraRun.date) = 3

\* C16: the timestamp of an accepted TrafficCamera detection is the output of
\* extractTimestamp on the timestamp or camera-metadata text of the response,
\* or absent; it is absent when neither text holds a DD/MM/YYYY HH:MM:SS
\* substring, and it is never the raw timestamp text.
C16_TimestampOnlyExtracted ==
  batch.service = "TrafficCamera" =>
  \A k \in DOMAIN batch.results :
    \A j \in DOMAIN batch.results[k].cars :
      LET car == batch.results[k].cars[j]
          content == batch.imagePaths[k].content
          extracted == {extractTimestamp(content.timestamp),
                        extractTimestamp(content.camera_metadata)} \ {Null}
      IN  /\ car.timestamp \in extracted \cup {Undefined}
          /\ extracted = {} => car.timestamp = Undefined
          /\ car.timestamp.t # "string"

\* the Strict half of C17: a normalized plate of digits and dashes only is
\* rejected, so an accepted plate holds a letter
StrictRejectsDigitsAndDashes ==
  plateRun.stage = "strictValidated" =>
    /\ OnlyDigitsAndDashes(plateRun.norm) => ~plateRun.strictOk
    /\ plateRun.strictOk => HasCharIn(plateRun.norm, UpperLetters)

ValidateTypeOfPolicy(type) ==
  IF candRun.policy = "Strict" THEN StrictValidateVehicleType(type)
  ELSE TrafficValidateVehicleType(type)

TypeVocabularyOfPolicy ==
  IF candRun.policy = "Strict" THEN StrictTypeVocabulary ELSE TrafficTypeVocabulary

\* C18: canonicalising a canonical type is the identity: a canonical type
\* written in any letter case is emitted as exactly that canonical type, and
\* canonicalising an emitted type again returns it unchanged.
C18_CanonicalTypeFixed ==
  (candRun.stage = "validated" /\ candRun.policy \in {"Strict", "TrafficCamera"})
  => \A i \in DOMAIN candRun.out :
       /\ \A t \in TypeVocabularyOfPolicy :
            toLowerCase(trim(candRun.cand.type.s)) = toLowerCase(t)
              => candRun.out[i].type = Str(t)
       /\ ValidateTypeOfPolicy(candRun.out[i].type) = candRun.out[i].type

\* what the claim says the canonicalizers return for the synonyms it lists
SynonymExamples ==
  { <<<<"g","r","e","y">>, <<"G","r","a","y">>>>,
    <<<<"n","a","v","y">>, <<"B","l","u","e">>>>,
    <<<<"m","a","r","o","o","n">>, <<"R","e","d">>>>,
    <<<<"l","i","m","e">>, <<"G","r","e","e","n">>>>,
    <<<<"b","e","i","g","e">>, <<"B","r","o","w","n">>>>,
    <<<<"c","r","e","a","m">>, <<"W","h","i","t","e">>>>,
    <<<<"g","o","l","d">>, <<"Y","e","l","l","o","w">>>>,
    <<<<"c","a","r">>, <<"S","e","d","a","n">>>>,
    <<<<"p","i","c","k","u","p"," ","t","r","u","c","k">>, <<"P","i","c","k","u","p">>>>,
    <<<<"l","o","r","r","y">>, <<"T","r","u","c","k">>>>,
    <<<<"c","o","a","c","h">>, <<"B","u","s">>>> }

TrafficSynonymExamples ==
  SynonymExamples
    \cup { <<<<"m","o","t","o","r","b","i","k","e">>, <<"M","o","t","o","r","c","y","c","l","e">>>> }

\* the texts the tables of the policy hold: vocabulary entries and synonyms
KnownColors == validColors \cup {e[1] : e \in colorMap}

KnownTypesOfPolicy ==
  IF candRun.policy = "Strict"
    THEN StrictValidTypes \cup {e[1] : e \in StrictTypeMap}
    ELSE TrafficValidTypes \cup {e[1] : e \in TrafficTypeMap}

\* C19: the color and type canonicalizers return the canonical value of a
\* listed synonym (grey -> Gray, navy -> Blue, ..., car -> Sedan, lorry ->
\* Truck, ..., motorbike -> Motorcycle under TrafficCamera), and a text found
\* in neither the vocabulary nor the synonym map has no match, so the
\* candidate is rejected.
C19_CanonicalizerLookup ==
  (/\ candRun.stage = "validated"
   /\ candRun.policy \in {"Strict", "TrafficCamera"}
   /\ candRun.cand.color.t = "string"
   /\ candRun.cand.type.t = "string")
  => LET color == toLowerCase(trim(candRun.cand.color.s))
         type == toLowerCase(trim(candRun.cand.type.s))
         examples == IF candRun.policy = "Strict"
                       THEN SynonymExamples ELSE TrafficSynonymExamples
     IN  /\ \A i \in DOMAIN candRun.out : \A e \in examples :
              /\ color = e[1] => candRun.out[i].color = Str(e[2])
              /\ type = e[1] => candRun.out[i].type = Str(e[2])
         /\ (color \notin KnownColors \/ type \notin KnownTypesOfPolicy)
              => candRun.out = <<>>

\* C20: under TrafficCamera a numeric confidence_score is emitted as
\* min(100, max(0, raw)), so every emitted confidence lies in [0, 100].
C20_ConfidenceClamped ==
  (candRun.stage = "validated" /\ candRun.policy = "TrafficCamera")
  => \A i \in DOMAIN candRun.out :
       LET raw == candRun.cand.conf
           emitted == candRun.out[i].confidence
       IN  /\ raw.t = "number"
                => /\ emitted.t = "number"
                   /\ raw.n < 0 => emitted.n = 0
                   /\ raw.n > 100 => emitted.n = 100
                   /\ (raw.n >= 0 /\ raw.n <= 100) => emitted.n = raw.n
           /\ emitted.t = "number" => emitted.n >= 0 /\ emitted.n <= 100

\* C20 witness: a candidate with confidence below 0 was accepted with
\* confidence 0
C20_Witness ==
  /\ candRun.stage = "validated"
  /\ candRun.policy = "TrafficCamera"
  /\ candRun.cand.conf.t = "number"
  /\ candRun.cand.conf.n < 0
  /\ Len(candRun.out) = 1
  /\ candRun.out[1].confidence = Num(0)

\* C21: under every policy a candidate that carries no confidence value yields
\* a detection whose confidence is unset; no default confidence is substituted
C21_NoDefaultConfidence ==
  (/\ candRun.stage = "validated"
   /\ candRun.cand.isObject
   /\ candRun.cand.conf = Undefined
   /\ candRun.out # <<>>)
  => candRun.out[1].confidence = Undefined

\* the results with success = true
SuccessCount(results) == Cardinality({i \in DOMAIN results : results[i].success})

\* h is x = total / count rounded to two decimals, in hundredths
IsRoundedHundredths(h, total, count) ==
  /\ 2 * count * h - count <= 200 * total
  /\ 200 * total < 2 * count * h + count

\* what both statistics functions compute alike
CommonStats(stats, results) ==
  LET n == Len(results)
      cars == SumTotalDetected(results)
  IN  /\ StatField(stats, "totalImages") = Num(n)
      /\ StatField(stats, "successfulDetections") = Num(SuccessCount(results))
      /\ SuccessCount(results) <= n
      /\ StatField(stats, "totalCarsDetected") = Num(cars)
      /\ StatField(stats, "averageCarsPerImage").t = "number"
      /\ n = 0 => StatField(stats, "averageCarsPerImage") = Num(0)
      /\ n > 0 => IsRoundedHundredths(StatField(stats, "averageCarsPerImage").n, cars, n)

\* C22 as stated: both getStrictDetectionStats and getDetectionStats return
\* the counts, the rounded average, and qualityScore equal to
\* 100 * successfulDetections / totalImages (0 when there are no results)
C22_StatsAsStated ==
  cameraRun.stage \in {"strictStats", "lenientStats"} =>
    LET results == cameraRun.results
        n == Len(results)
        q == StatField(cameraRun.detectionStats, "qualityScore")
    IN  /\ CommonStats(cameraRun.detectionStats, results)
        /\ q.t = "number"
        /\ n = 0 => q.n = 0
        /\ n > 0 => n * q.n = 10000 * SuccessCount(results)

\* C22: both functions return totalImages, successfulDetections (at most
\* totalImages), totalCarsDetected and averageCarsPerImage (rounded to two
\* decimals, 0 for no results); getStrictDetectionStats also returns qualityScore,
\* 100 * successfulDetections / totalImages rounded to two decimals (0 for no
\* results), and getDetectionStats returns no qualityScore.  Two successes of
\* three with two cars give 0.67 and 66.67.
C22_Stats ==
  cameraRun.stage \in {"strictStats", "lenientStats"} =>
    LET results == cameraRun.results
        n == Len(results)
        q == StatField(cameraRun.detectionStats, "qualityScore")
    IN  /\ CommonStats(cameraRun.detectionStats, results)
        /\ cameraRun.stage = "lenientStats" => q = Undefined
        /\ cameraRun.stage = "strictStats" =>
             /\ q.t = "number"
             /\ n = 0 => q.n = 0
             /\ n > 0 => IsRoundedHundredths(q.n, 100 * SuccessCount(results), n)
             /\ (n = 3 /\ SuccessCount(results) = 2 /\ SumTotalDetected(results) = 2)
                  => /\ cameraRun.detectionStats.averageCarsPerImage = 67
                     /\ q.n = 6667

\* C22 witness: getStrictDetectionStats over three results, two of them
\* successful with one car each, gives 0.67 cars per image and quality 66.67
C22_Witness ==
  /\ cameraRun.stage = "strictStats"
  /\ Len(cameraRun.results) = 3
  /\ SuccessCount(cameraRun.results) = 2
  /\ SumTotalDetected(cameraRun.results) = 2
  /\ cameraRun.detectionStats.averageCarsPerImage = 67
  /\ cameraRun.detectionStats.qualityScore = 6667

\* made only of uppercase letters, digits and dashes, of length 2 to 15
InPlateFormat(s) ==
  /\ Len(s) >= MinPlateLength /\ Len(s) <= MaxPlateLength
  /\ \A i \in DOMAIN s : s[i] \in UpperLetters \cup Digits \cup {"-"}

\* excluded: a sentinel word, a leading YYYY-MM-DD date, a camera id or a
\* telemetry word (a text in the plate format holds no ':' and no '/')
ExcludedPlate(s) ==
  \/ s \in SentinelWords
  \/ /\ Len(s) >= 10
     /\ \A i \in {1, 2, 3, 4, 6, 7, 9, 10} : s[i] \in Digits
     /\ s[5] = "-" /\ s[8] = "-"
  \/ CameraIdStart(s)
  \/ TelemetryWord(s)

\* validateTrafficCameraPlate applied again to a plate it returned returns it
TrafficRevalidationSame ==
  plateRun.stage = "trafficRevalidated" => plateRun.retraffic = plateRun.traffic

C23_Examples ==
  { <<"2","2","2","4","8","6","5">>, <<"A","B","C","-","1","2","3">>,
    <<"A","B","-","1","2","3","4">>, <<"2","2","-","2","4","8","6","5">> }

\* C23 as stated: validateTrafficCameraPlate returns unchanged every input made
\* only of uppercase letters, digits and dashes, of length 2 to 15, that is not
\* excluded, and returns the same plate when applied to a plate it returned
C23_FormatPreservedAsStated ==
  /\ (/\ plateRun.stage = "trafficValidated"
      /\ InPlateFormat(plateRun.text)
      /\ ~ExcludedPlate(plateRun.text))
     => plateRun.traffic = Str(plateRun.text)
  /\ TrafficRevalidationSame

\* C23 as amended: validateTrafficCameraPlate returns unchanged every input made
\* only of uppercase letters, digits and dashes, of length 2 to 15, that holds
\* at least one letter or digit and is not excluded ('2224865', 'ABC-123',
\* 'AB-1234', '22-24865'); an input of dashes only is rejected; applied to a
\* plate it returned it returns the same plate
C23_FormatPreserved ==
  /\ (/\ plateRun.stage = "trafficValidated"
      /\ InPlateFormat(plateRun.text))
     => /\ (/\ HasCharIn(plateRun.text, UpperLetters \cup Digits)
            /\ ~ExcludedPlate(plateRun.text))
           => plateRun.traffic = Str(plateRun.text)
        /\ ~HasCharIn(plateRun.text, UpperLetters \cup Digits)
           => plateRun.traffic = Null
  /\ (plateRun.stage = "trafficValidated" /\ plateRun.text \in C23_Examples)
     => plateRun.traffic = Str(plateRun.text)
  /\ TrafficRevalidationSame

\* C23 witness: the plate ABC-123 was returned unchanged and returned again
\* when the validator was applied to it
C23_Witness ==
  /\ plateRun.stage = "trafficRevalidated"
  /\ plateRun.text = <<"A","B","C","-","1","2","3">>
  /\ plateRun.traffic = Str(plateRun.text)
  /\ plateRun.retraffic = Str(plateRun.text)

\* C24: every non-empty string the Strict normalizer returns holds only A-Z,
\* 0-9 and '-', holds no two adjacent dashes, and neither begins nor ends with
\* a dash
C24_NormalizedShape ==
  (plateRun.stage = "normalized" /\ plateRun.norm # <<>>) =>
    LET norm == plateRun.norm
    IN  /\ \A i \in DOMAIN norm : norm[i] \in UpperLetters \cup Digits \cup {"-"}
        /\ \A i \in 1..(Len(norm) - 1) : ~(norm[i] = "-" /\ norm[i + 1] = "-")
        /\ norm[1] # "-"
        /\ norm[Len(norm)] # "-"

\* letters and digits only, at least one
AlnumOnly(s) ==
  s # <<>> /\ \A i \in DOMAIN s : s[i] \in UpperLetters \cup LowerLetters \cup Digits

\* C25: under TrafficCamera separators are collapsed: a bullet, a dot or
\* whitespace between two alphanumeric parts of the plate text becomes a single
\* '-' in the emitted plate, and the emitted plate holds no run of two or more
\* dashes
C25_TrafficSeparatorsCollapsed ==
  (plateRun.stage = "trafficValidated" /\ plateRun.traffic # Null) =>
    LET text == plateRun.text
        plate == plateRun.traffic.s
    IN  /\ \A i \in 1..(Len(plate) - 1) : ~(plate[i] = "-" /\ plate[i + 1] = "-")
        /\ \A i \in 2..(Len(text) - 1) :
             (/\ text[i] \in Bullets \cup Whitespace \cup {"."}
              /\ AlnumOnly(SubSeq(text, 1, i - 1))
              /\ AlnumOnly(SubSeq(text, i + 1, Len(text))))
             => plate = toUpperCase(SubSeq(text, 1, i - 1)) \o <<"-">>
                          \o toUpperCase(SubSeq(text, i + 1, Len(text)))

\* the placeholders a model answers with instead of a plate
Placeholders ==
  { <<"N","O","T","_","F","O","U","N","D">>,
    <<"N","O","T","F","O","U","N","D">>,
    <<"N","O","N","E">>,
    <<"N","U","L","L">>,
    <<"U","N","K","N","O","W","N">> }

\* C26: under Strict, TrafficCamera and Lenient a candidate whose plate text is
\* a placeholder ('NOT_FOUND', 'NOTFOUND', 'NONE', 'NULL', 'UNKNOWN') is
\* rejected, and no emitted detection has a placeholder as its plate number
C26_NoPlaceholderPlate ==
  candRun.stage = "validated" =>
    /\ (/\ candRun.cand.plate.t = "string"
        /\ toUpperCase(trim(candRun.cand.plate.s)) \in Placeholders)
       => candRun.out = <<>>
    /\ \A i \in DOMAIN candRun.out : candRun.out[i].plate_number \notin Placeholders

\* what the validator of the policy emits for the candidate alone
EmittedAlone(policy, car) ==
  CASE policy = "Strict" -> validateStrictCars(<<car>>)
    [] policy = "TrafficCamera" -> validateTrafficCameraCars(<<car>>, Undefined, Undefined)
    [] policy = "Lenient" -> validateAndCleanCars(<<car>>)

RECURSIVE EmittedEach(_, _)
EmittedEach(policy, cars) ==
  IF cars = <<>> THEN <<>>
  ELSE EmittedAlone(policy, Head(cars)) \o EmittedEach(policy, Tail(cars))

\* C27: candidate validation is an order-preserving filter: a candidate yields
\* at most one detection, the emitted detections are, in the order of the
\* candidates, what each candidate yields alone (so never more detections than
\* candidates, and nothing depends on the other candidates), and a candidate
\* that is invalid or makes validation throw is skipped without affecting the
\* rest; this holds after every pass of the loop
C27_OrderPreservingFilter ==
  candRun.stage \in {"listLoop", "listDone"} =>
    LET done == SubSeq(candRun.cars, 1, candRun.i - 1)
    IN  /\ candRun.out = EmittedEach(candRun.policy, done)
        /\ Len(candRun.out) <= Len(done)
        /\ \A k \in DOMAIN candRun.cars :
             Len(EmittedAlone(candRun.policy, candRun.cars[k])) <= 1
        /\ candRun.stage = "listDone" => Len(done) = Len(candRun.cars)

\* C27 witness: of three candidates the second makes validation throw; the
\* first and the third are emitted, in that order
C27_Witness ==
  /\ candRun.stage = "listDone"
  /\ Len(candRun.cars) = 3
  /\ ValidationThrows(candRun.policy, candRun.cars[2])
  /\ candRun.cars[1] # candRun.cars[3]
  /\ candRun.out = EmittedAlone(candRun.policy, candRun.cars[1])
                     \o EmittedAlone(candRun.policy, candRun.cars[3])
  /\ Len(candRun.out) = 2

\* C28: every candidate accepted by the Strict validator (validateStrictCars)
\* is accepted by the Lenient validator (validateAndCleanCars) too
C28_StrictImpliesLenient ==
  (candRun.stage = "compared" /\ candRun.out # <<>>) => candRun.lenientOut # <<>>

\* what a batch invocation on the images returns when it runs alone (C10)
RECURSIVE ResultsAlone(_, _)
ResultsAlone(service, imagePaths) ==
  IF imagePaths = <<>> THEN <<>>
  ELSE <<DetectResult(service, Head(imagePaths))>> \o ResultsAlone(service, Tail(imagePaths))

\* C29: two batch invocations interleaved at their await points on one service
\* instance each return what they return when run alone: whatever the other
\* invocation has done, an invocation has gathered one result per image of its
\* own processed so far, the last one being the result of its own last
\* processed image, and it returns the results of its own images, in order
C29_ConcurrentInvocations ==
  batch.pc = "pair" =>
    \A k \in Invocations :
      LET f == batch.frames[k]
          seen == IF f.pc = "done" THEN Len(f.imagePaths)
                  ELSE IF f.pc = "delay" THEN f.i ELSE f.i - 1
      IN  /\ Len(f.results) = seen
          /\ seen > 0 => f.results[seen] = DetectResult(batch.service, f.imagePaths[seen])
          /\ f.pc = "done" => /\ f.returned = ResultsAlone(batch.service, f.imagePaths)
                              /\ f.results = f.returned

\* C29 witness: both invocations have returned, each the results of its own
\* two images, the first item succeeding in one invocation and failing in
\* the other
C29_Witness ==
  /\ batch.pc = "pair"
  /\ \A k \in Invocations :
       /\ batch.frames[k].pc = "done"
       /\ Len(batch.frames[k].imagePaths) = 2
       /\ batch.frames[k].returned = ResultsAlone(batch.service, batch.frames[k].imagePaths)
  /\ batch.frames[1].returned # batch.frames[2].returned
  /\ batch.frames[1].returned[1].success
  /\ ~batch.frames[2].returned[1].success

\* C30: for every finite list of images a batch method eventually returns,
\* given that every external call eventually returns or fails, and it returns
\* one result per image: a failing item does not stop the batch
C30_BatchReturns ==
  <>(batch.pc = "done" /\ Len(batch.results) = Len(batch.imagePaths))

\* C30 witness: a batch of three has returned whose first two items failed,
\* by the file and by the call, and whose third item then got its result
C30_Witness ==
  /\ batch.pc = "done"
  /\ Len(batch.imagePaths) = 3
  /\ batch.imagePaths[1].kind = "readError"
  /\ batch.imagePaths[2].kind = "apiError"
  /\ batch.imagePaths[3].kind = "content"
  /\ Len(batch.results) = 3
  /\ batch.results[3] = DetectResult(batch.service, batch.imagePaths[3])

====
